---- MODULE Spec2Model ----
(***************************************************************************)
(* A model of the synchronization and reconciliation engine of the         *)
(* chat-archive program: the get-or-create primitives of                   *)
(* chat_archive/backends/__init__.py, the scoped counters of               *)
(* chat_archive/__init__.py and the Google Hangouts download loop of       *)
(* chat_archive/backends/hangouts.py.                                      *)
(*                                                                         *)
(* Tables are sets of rows (records with an "id" field).  Python's None is *)
(* the string None in string columns and the row id NoRow in references.   *)
(* Every Python method is an operator from the state it reads to a record  *)
(* holding the state it leaves and what it returns (or the exception it    *)
(* raises in "raised"); the actions apply these operators to inputs drawn  *)
(* from small sets.                                                        *)
(***************************************************************************)
EXTENDS Integers, Sequences, FiniteSets, TLC

VARIABLES
    accounts,            \* table "accounts"
    contacts,            \* table "contacts" (with the two mapping tables as set-valued fields)
    email_addresses,     \* table "email_addresses"
    telephone_numbers,   \* table "telephone_numbers"
    conversations,       \* table "conversations"
    messages,            \* table "messages"
    stack,               \* BackendStats.stack
    external_id_cache,   \* ChatArchiveBackend.external_id_cache
    remote,              \* the users and conversations the chat service holds
    run,                 \* the position and the locals of a synchronization run
    ret,                 \* what the last call was given and what it returned
    disk                 \* the tables as of the last session.commit()

vars == <<accounts, contacts, email_addresses, telephone_numbers,
          conversations, messages, stack, external_id_cache, remote, run, ret,
          disk>>

\* DatabaseClient.session: the tables as the running program sees them,
\* flushed writes included.
session ==
    [accounts |-> accounts, contacts |-> contacts,
     email_addresses |-> email_addresses, telephone_numbers |-> telephone_numbers,
     conversations |-> conversations, messages |-> messages]

\* No chat service is contacted and no run is in progress.
NoRemote == [users |-> <<>>, conversations |-> <<>>]
NoRun ==
    [pc |-> "idle", force |-> FALSE, index |-> 0, path |-> "none", event_id |-> "None",
     cursors |-> <<>>, bogus_user_ids |-> {}, raised |-> "None", previous |-> "none",
     previous_force |-> FALSE, repeat |-> FALSE, in_flight |-> 0,
     done |-> <<>>]

-----------------------------------------------------------------------------
(* Values *)

None == "None"
NoRow == 0

\* Python truthiness of a string-or-None value ("if value:").
Truthy(v) == v # None /\ v # ""

\* dict.get(key): the value, or None when the key is absent.
Get(d, key) == IF key \in DOMAIN d THEN d[key] ELSE None

\* A dict without the given keys (dict.pop on each of them).
Without(d, keys) == [k \in DOMAIN d \ keys |-> d[k]]

\* The largest element of a non-empty set of integers.
MaxOf(S) == CHOOSE x \in S : \A y \in S : y <= x

\* The primary key an INSERT gets: one more than the largest in use.
NextId(table) == IF table = {} THEN 1 ELSE MaxOf({r.id : r \in table}) + 1

\* The elements of a sequence.
Range(f) == {f[i] : i \in DOMAIN f}

\* The row of a table with the given primary key.
Row(table, id) == CHOOSE r \in table : r.id = id

-----------------------------------------------------------------------------
(* BackendStats: a stack of counter scopes *)

CounterNames ==
    {"contacts_added", "contacts_changed", "conversations_added", "messages_added",
     "email_addresses_added", "telephone_numbers_added",
     "failed_conversations", "skipped_conversations"}

\* collections.defaultdict(int): every counter reads zero.
ZeroScope == [n \in CounterNames |-> 0]

\* BackendStats.__init__
NewStats == <<ZeroScope>>

\* BackendStats.scope
scope(st) == st[Len(st)]

\* self.stats.<name> += 1, that is __getattr__ then __setattr__ on the current scope.
Incr(st, name) == [st EXCEPT ![Len(st)][name] = @ + 1]

-----------------------------------------------------------------------------
(* get_or_create_object and the message primitive *)

\* Query.one_or_none() raises when the filters select more than one row.
MultipleResultsFound == "MultipleResultsFound"
KeyError == "KeyError"

\* Column defaults of the models (nullable columns default to NULL).
MessageDefaults ==
    [external_id |-> None, sender |-> NoRow, recipient |-> NoRow, html |-> None, raw |-> None]

ConversationDefaults ==
    [name |-> None, last_modified |-> 0, import_complete |-> FALSE,
     import_errors |-> FALSE, is_group_conversation |-> FALSE]

\* As get_or_create_object, without the lookup: a row is always created.
get_or_create_object_always_new(table, defaults, required, optional) ==
    [raised |-> None, new |-> TRUE, obj |-> NextId(table),
     table |-> table \cup {("id" :> NextId(table)) @@ required @@ optional @@ defaults}]

get_or_create_object(table, defaults, required, optional) ==
    LET found == {r \in table : \A f \in DOMAIN required : r[f] = required[f]}
        \* kw.update(optional); kw.update(required); obj = model(**kw)
        obj == ("id" :> NextId(table)) @@ required @@ optional @@ defaults
    IN  IF Cardinality(found) > 1
        THEN [raised |-> MultipleResultsFound, new |-> FALSE, obj |-> NoRow, table |-> table]
        ELSE IF found # {}
        THEN [raised |-> None, new |-> FALSE,
              obj |-> (CHOOSE r \in found : TRUE).id, table |-> table]
        ELSE [raised |-> None, new |-> TRUE, obj |-> obj.id, table |-> table \cup {obj}]

\* Message texts are tokens; "g:" marks a Google redirect wrapped around the rest.
strip_redirects(text) ==
    IF text = "g:hi" THEN "hi" ELSE text

pre_process_text(attributes) ==
    LET modified_text == strip_redirects(attributes.text)
        a1 == [attributes EXCEPT !.text = modified_text]
        original_html == Get(attributes, "html")
    IN  IF Truthy(original_html)
        THEN IF strip_redirects(original_html) # modified_text
             THEN [a1 EXCEPT !.html = strip_redirects(original_html)]
             ELSE Without(a1, {"html"})
        ELSE a1

\* get_or_create_message after "self.pre_process_text(attributes)": the choice
\* of the lookup key, the lookup and the counter.
find_or_create_message(msgs, st, conversation, attrs) ==
    LET by_id == Truthy(Get(attrs, "external_id"))
        required ==
            IF by_id
            THEN [conversation |-> conversation, external_id |-> attrs.external_id]
            ELSE [conversation |-> conversation, sender |-> attrs.sender,
                  timestamp |-> attrs.timestamp]
        optional == Without(attrs, DOMAIN required)
        got == get_or_create_object(msgs, MessageDefaults, required, optional)
    IN  IF ~by_id /\ "sender" \notin DOMAIN attrs
        THEN [raised |-> KeyError, created |-> FALSE, obj |-> NoRow,
              messages |-> msgs, stack |-> st]
        ELSE IF got.raised # None
        THEN [raised |-> got.raised, created |-> FALSE, obj |-> NoRow,
              messages |-> msgs, stack |-> st]
        ELSE [raised |-> None, created |-> got.new, obj |-> got.obj,
              messages |-> got.table,
              stack |-> IF got.new THEN Incr(st, "messages_added") ELSE st]

\* get_or_create_message(conversation, **attributes) on the messages table msgs
\* and the statistics st.
get_or_create_message(msgs, st, conversation, attributes) ==
    find_or_create_message(msgs, st, conversation, pre_process_text(attributes))

-----------------------------------------------------------------------------
(* Contacts: lookup, creation and merge *)

\* str.split() and " ".join() on the names the model draws from.
split(full_name) ==
    CASE full_name = "" -> <<>>
      [] full_name = "Alice" -> <<"Alice">>
      [] full_name = "Alice Smith" -> <<"Alice", "Smith">>
      [] full_name = "Bob Lee Ray" -> <<"Bob", "Lee", "Ray">>

join(words) ==
    CASE words = <<"Smith">> -> "Smith"
      [] words = <<"Lee", "Ray">> -> "Lee Ray"

\* A lookup that trusts every cache entry, also a cached None.
find_contact_by_external_id_trusting(cs, cache, account, external_id) ==
    LET found == {c \in cs : c.account = account /\ c.external_id = external_id}
        queried == IF found = {} THEN NoRow ELSE (CHOOSE c \in found : TRUE).id
    IN  IF external_id \in DOMAIN cache
        THEN [raised |-> None, contact |-> cache[external_id], cache |-> cache]
        ELSE IF Cardinality(found) > 1
        THEN [raised |-> MultipleResultsFound, contact |-> NoRow, cache |-> cache]
        ELSE [raised |-> None, contact |-> queried,
              cache |-> (external_id :> queried) @@ cache]

\* find_contact_by_external_id: the cache answers when it holds a contact,
\* otherwise the table is queried and the answer (also None) is cached.
find_contact_by_external_id(cs, cache, account, external_id) ==
    LET value == IF external_id \in DOMAIN cache THEN cache[external_id] ELSE NoRow
        found == {c \in cs : c.account = account /\ c.external_id = external_id}
        queried == IF found = {} THEN NoRow ELSE (CHOOSE c \in found : TRUE).id
    IN  IF value # NoRow
        THEN [raised |-> None, contact |-> value, cache |-> cache]
        ELSE IF Cardinality(found) > 1
        THEN [raised |-> MultipleResultsFound, contact |-> NoRow, cache |-> cache]
        ELSE [raised |-> None, contact |-> queried,
              cache |-> (external_id :> queried) @@ cache]

find_contact_by_email_address(cs, account, value) ==
    LET found == {c \in cs : c.account = account /\ value \in c.email_addresses}
    IN  IF Cardinality(found) > 1
        THEN [raised |-> MultipleResultsFound, contact |-> NoRow]
        ELSE [raised |-> None,
              contact |-> IF found = {} THEN NoRow ELSE (CHOOSE c \in found : TRUE).id]

\* The query joins the contact's telephone numbers but filters on
\* EmailAddress.value: it selects every contact of the account that has a
\* telephone number, once per row of email_addresses holding the value.
find_contact_by_telephone_number(cs, emails, account, value) ==
    LET found == {c \in cs : /\ c.account = account
                             /\ c.telephone_numbers # {}
                             /\ \E e \in emails : e.value = value}
    IN  IF Cardinality(found) > 1
        THEN [raised |-> MultipleResultsFound, contact |-> NoRow]
        ELSE [raised |-> None,
              contact |-> IF found = {} THEN NoRow ELSE (CHOOSE c \in found : TRUE).id]

\* The loop over the values of one plural attribute: the first contact found.
RECURSIVE find_by_values(_, _, _, _, _)
find_by_values(cs, emails, account, values, by_email) ==
    IF values = <<>>
    THEN [raised |-> None, contact |-> NoRow]
    ELSE LET got == IF by_email
                    THEN find_contact_by_email_address(cs, account, Head(values))
                    ELSE find_contact_by_telephone_number(cs, emails, account, Head(values))
         IN  IF got.raised # None \/ got.contact # NoRow
             THEN got
             ELSE find_by_values(cs, emails, account, Tail(values), by_email)

\* find_contact_by_attributes: external_id, then email_addresses, then
\* telephone_numbers; the first contact found is returned.
find_contact_by_attributes(cs, emails, cache, account, attributes) ==
    LET external_id == Get(attributes, "external_id")
        by_id == IF Truthy(external_id)
                 THEN find_contact_by_external_id(cs, cache, account, external_id)
                 ELSE [raised |-> None, contact |-> NoRow, cache |-> cache]
        by_email == IF "email_addresses" \in DOMAIN attributes
                    THEN find_by_values(cs, emails, account, attributes.email_addresses, TRUE)
                    ELSE [raised |-> None, contact |-> NoRow]
        by_phone == IF "telephone_numbers" \in DOMAIN attributes
                    THEN find_by_values(cs, emails, account, attributes.telephone_numbers, FALSE)
                    ELSE [raised |-> None, contact |-> NoRow]
    IN  IF by_id.raised # None \/ by_id.contact # NoRow
        THEN by_id
        ELSE IF by_email.raised # None \/ by_email.contact # NoRow
        THEN [raised |-> by_email.raised, contact |-> by_email.contact, cache |-> by_id.cache]
        ELSE [raised |-> by_phone.raised, contact |-> by_phone.contact, cache |-> by_id.cache]

\* get_or_create_email_address and get_or_create_telephone_number: the tables
\* hold one row per value (unique columns), so the lookup never finds two.
get_or_create_value(table, st, value, counter) ==
    LET got == get_or_create_object(table, <<>>, [value |-> value], <<>>)
    IN  [table |-> got.table, stack |-> IF got.new THEN Incr(st, counter) ELSE st]

\* As associate, reporting a change for every value given, linked or not.
RECURSIVE associate_always_changed(_, _, _, _)
associate_always_changed(s, values, field, counter) ==
    IF values = <<>>
    THEN s
    ELSE LET got == get_or_create_value(s[field], s.stack, Head(values), counter)
         IN  associate_always_changed(
                 [s EXCEPT !.contact[field] = @ \cup {Head(values)},
                           ![field] = got.table,
                           !.stack = got.stack,
                           !.changes_made = TRUE,
                           !.appended = IF Head(values) \in s.contact[field] THEN @
                                        ELSE Append(@, <<field, Head(values)>>)],
                 Tail(values), field, counter)

\* As associate, appending every value given to the contact, linked or not.
RECURSIVE associate_appending(_, _, _, _)
associate_appending(s, values, field, counter) ==
    IF values = <<>>
    THEN s
    ELSE LET got == get_or_create_value(s[field], s.stack, Head(values), counter)
         IN  associate_appending(
                 [s EXCEPT !.contact[field] = @ \cup {Head(values)},
                           ![field] = got.table,
                           !.stack = got.stack,
                           !.changes_made = TRUE,
                           !.appended = Append(@, <<field, Head(values)>>)],
                 Tail(values), field, counter)

\* "Associate the given email addresses (telephone numbers) with the contact":
\* s is [contact, email_addresses, telephone_numbers, stack, changes_made,
\* appended], and field names the relationship of the contact and the table of
\* its values.  appended lists the "contact.<field>.append(object)" calls made.
RECURSIVE associate(_, _, _, _)
associate(s, values, field, counter) ==
    IF values = <<>>
    THEN s
    ELSE LET got == get_or_create_value(s[field], s.stack, Head(values), counter)
             linked == Head(values) \in s.contact[field]
         IN  associate(
                 [s EXCEPT !.contact[field] = IF linked THEN @ ELSE @ \cup {Head(values)},
                           ![field] = got.table,
                           !.stack = got.stack,
                           !.changes_made = @ \/ ~linked,
                           !.appended = IF linked THEN @
                                        ELSE Append(@, <<field, Head(values)>>)],
                 Tail(values), field, counter)

\* "for singular, plural in ...": the singular form is appended to the plural one.
plural_form(attributes, singular, plural) ==
    IF singular \in DOMAIN attributes
    THEN LET collection == IF plural \in DOMAIN attributes THEN attributes[plural] ELSE <<>>
             appended == IF Truthy(attributes[singular])
                         THEN Append(collection, attributes[singular])
                         ELSE collection
         IN  (plural :> appended) @@ Without(attributes, {singular})
    ELSE attributes

\* "if 'full_name' in attributes": first word and the remaining words.
split_full_name(attributes) ==
    IF "full_name" \in DOMAIN attributes
    THEN LET words == split(attributes.full_name)
             rest == Without(attributes, {"full_name"})
         IN  IF words = <<>> THEN rest
             ELSE IF Tail(words) = <<>>
             THEN ("first_name" :> Head(words)) @@ rest
             ELSE ("first_name" :> Head(words)) @@ ("last_name" :> join(Tail(words))) @@ rest
    ELSE attributes

ContactDefaults ==
    [external_id |-> None, first_name |-> None, last_name |-> None,
     email_addresses |-> {}, telephone_numbers |-> {}]

\* "Update the attributes of an existing contact", overwriting what is stored.
update_contact_overwriting(contact, attributes) ==
    [f \in DOMAIN contact |->
        IF f \in DOMAIN attributes /\ Truthy(attributes[f])
        THEN attributes[f] ELSE contact[f]]

\* "Update the attributes of an existing contact": only empty ones are filled.
update_contact(contact, attributes) ==
    [f \in DOMAIN contact |->
        IF f \in DOMAIN attributes /\ Truthy(attributes[f]) /\ ~Truthy(contact[f])
        THEN attributes[f] ELSE contact[f]]

\* get_or_create_contact from "if contact:" on: found is what
\* find_contact_by_attributes returned, a2 the attributes after the full name
\* was split.  The contact is updated or created, then the email addresses
\* and the telephone numbers are associated with it.
update_or_create_contact(w, account, found, a2) ==
    LET emails == IF "email_addresses" \in DOMAIN a2 THEN a2.email_addresses ELSE <<>>
        phones == IF "telephone_numbers" \in DOMAIN a2 THEN a2.telephone_numbers ELSE <<>>
        a3 == Without(a2, {"email_addresses", "telephone_numbers"})
        exists == found.contact # NoRow
        base == IF exists
                THEN update_contact(Row(w.contacts, found.contact), a3)
                ELSE ("id" :> NextId(w.contacts)) @@ ("account" :> account) @@ a3
                     @@ ContactDefaults
    IN  associate(
            associate([contact |-> base,
                       email_addresses |-> w.email_addresses,
                       telephone_numbers |-> w.telephone_numbers,
                       stack |-> IF exists THEN w.stack
                                 ELSE Incr(w.stack, "contacts_added"),
                       changes_made |-> exists /\ base # Row(w.contacts, found.contact),
                       appended |-> <<>>],
                      emails, "email_addresses", "email_addresses_added"),
            phones, "telephone_numbers", "telephone_numbers_added")

\* The end of get_or_create_contact: "if changes_made:" and "return contact",
\* or the exception the lookup raised.  s is what update_or_create_contact
\* left.
return_contact(w, found, s) ==
    IF found.raised # None
    THEN [raised |-> found.raised, contact |-> NoRow, created |-> FALSE,
          changes_made |-> FALSE, appended |-> <<>>,
          w |-> [w EXCEPT !.cache = found.cache]]
    ELSE [raised |-> None, contact |-> s.contact.id, created |-> found.contact = NoRow,
          changes_made |-> s.changes_made, appended |-> s.appended,
          w |-> [contacts |-> {c \in w.contacts : c.id # s.contact.id} \cup {s.contact},
                 email_addresses |-> s.email_addresses,
                 telephone_numbers |-> s.telephone_numbers,
                 stack |-> IF s.changes_made
                           THEN Incr(s.stack, "contacts_changed") ELSE s.stack,
                 cache |-> found.cache]]

\* get_or_create_contact after the singular forms were made plural: the
\* lookup, the split of the full name, and the rest.
find_or_create_contact(w, account, a1, found) ==
    return_contact(w, found, update_or_create_contact(w, account, found, split_full_name(a1)))

\* get_or_create_contact(**attributes) of the backend of the given account.
\* w is [contacts, email_addresses, telephone_numbers, stack, cache].
get_or_create_contact(w, account, attributes) ==
    find_or_create_contact(w, account,
        plural_form(plural_form(attributes, "email_address", "email_addresses"),
                    "telephone_number", "telephone_numbers"),
        find_contact_by_attributes(w.contacts, w.email_addresses, w.cache, account,
            plural_form(plural_form(attributes, "email_address", "email_addresses"),
                        "telephone_number", "telephone_numbers")))

-----------------------------------------------------------------------------
(* Conversations *)

\* External ids reach the backend as strings or as integers; str() of either.
str(external_id) ==
    IF "int" \in DOMAIN external_id THEN ToString(external_id.int) ELSE external_id.str

\* As get_or_create_conversation, with the account left out of the lookup.
get_or_create_conversation_any_account(convs, st, account, external_id, attributes) ==
    LET got == get_or_create_object(convs, ConversationDefaults,
                   [external_id |-> str(external_id)],
                   ("account" :> account) @@ attributes)
    IN  [raised |-> got.raised, created |-> got.new, obj |-> got.obj,
         conversations |-> got.table,
         stack |-> IF got.new THEN Incr(st, "conversations_added") ELSE st]

\* get_or_create_conversation(external_id, **attributes) of the backend of the
\* given account.
get_or_create_conversation(convs, st, account, external_id, attributes) ==
    LET got == get_or_create_object(convs, ConversationDefaults,
                   [account |-> account, external_id |-> str(external_id)],
                   attributes)
    IN  [raised |-> got.raised, created |-> got.new, obj |-> got.obj,
         conversations |-> got.table,
         stack |-> IF got.new THEN Incr(st, "conversations_added") ELSE st]

-----------------------------------------------------------------------------
(* The store as earlier calls left it, for the specifications that start    *)
(* from a populated archive.                                                *)

EmptyWorld ==
    [contacts |-> {}, email_addresses |-> {}, telephone_numbers |-> {},
     stack |-> NewStats, cache |-> <<>>]

\* One account per (backend, account name) pair, as ChatArchiveBackend.account
\* creates them.
TwoAccounts ==
    {[id |-> 1, backend |-> "hangouts", name |-> "default"],
     [id |-> 2, backend |-> "hangouts", name |-> "work"]}

-----------------------------------------------------------------------------
(* SpecMsg: any sequence of get_or_create_message calls on two conversations *)

MaxMessages == 2

\* The descriptors: with and without an external id, with a known sender, an
\* unknown sender (None) and no sender key at all.
MessageDescriptors ==
    LET full == [external_id : {None, "100"}, sender : {NoRow, 1}, timestamp : {1, 2},
                 text : {"hi"}]
    IN  full \cup {Without(d, {"sender"}) : d \in full}
             \cup {[external_id |-> "100", sender |-> 1, timestamp |-> 1,
                    text |-> "g:hi", html |-> "g:hi"]}

MsgContacts ==
    get_or_create_contact(EmptyWorld, 1, [external_id |-> "u1", full_name |-> "Alice"]).w.contacts

MsgConversations ==
    LET first == get_or_create_conversation({}, NewStats, 1, [str |-> "A"], <<>>)
    IN  get_or_create_conversation(first.conversations, NewStats, 1, [str |-> "B"], <<>>).conversations

InitMsg ==
    /\ accounts = TwoAccounts
    /\ contacts = MsgContacts
    /\ email_addresses = {}
    /\ telephone_numbers = {}
    /\ conversations = MsgConversations
    /\ messages = {}
    /\ stack = NewStats
    /\ external_id_cache = <<>>
    /\ remote = NoRemote
    /\ run = NoRun
    /\ ret = [op |-> "none"]
    /\ disk = session

GetOrCreateMessage ==
    \E c \in conversations, d \in MessageDescriptors :
        \E got \in {get_or_create_message(messages, stack, c.id, d)} :
            /\ got.created => Cardinality(messages) < MaxMessages
            /\ messages' = got.messages
            /\ stack' = got.stack
            /\ ret' = [op |-> "get_or_create_message", conversation |-> c.id,
                       attributes |-> d, raised |-> got.raised,
                       created |-> got.created, obj |-> got.obj]
            /\ UNCHANGED <<accounts, contacts, email_addresses, telephone_numbers,
                           conversations, external_id_cache, remote, run, disk>>

NextMsg == GetOrCreateMessage

SpecMsg == InitMsg /\ [][NextMsg]_vars

\* The identity key of a descriptor against a stored row: the external id when
\* the descriptor supplies one, otherwise sender and timestamp.
SameKey(m, d) ==
    IF Truthy(Get(d, "external_id"))
    THEN m.external_id = d.external_id
    ELSE ~Truthy(m.external_id) /\ m.sender = d.sender /\ m.timestamp = d.timestamp

\* No conversation holds two rows with the same identity key.
NoDuplicateKey ==
    \A m1, m2 \in messages :
        (m1.id # m2.id /\ m1.conversation = m2.conversation) =>
            IF Truthy(m1.external_id) /\ Truthy(m2.external_id)
            THEN m1.external_id # m2.external_id
            ELSE IF ~Truthy(m1.external_id) /\ ~Truthy(m2.external_id)
            THEN m1.sender # m2.sender \/ m1.timestamp # m2.timestamp
            ELSE TRUE

\* C1: after any sequence of get_or_create_message calls no conversation holds
\* two rows with the same identity key, and a call whose key is already stored
\* in the conversation returns created = false with the stored row and leaves
\* messages_added as it was.  (Stated for the descriptors that supply the
\* attributes of their key; C31 is about the others.)
C1_AtMostOnePerIdentity ==
    [][(ret'.op = "get_or_create_message"
        /\ (Truthy(Get(ret'.attributes, "external_id")) \/ "sender" \in DOMAIN ret'.attributes))
       => LET stored == {m \in messages : /\ m.conversation = ret'.conversation
                                          /\ SameKey(m, ret'.attributes)}
          IN  /\ NoDuplicateKey'
              /\ stored # {} =>
                    /\ ret'.raised = None
                    /\ ret'.created = FALSE
                    /\ ret'.obj \in {m.id : m \in stored}
                    /\ scope(stack').messages_added = scope(stack).messages_added]_vars

\* The part of C1 that is a state invariant: rows never share an identity key.
C1_RowsNeverShareKey == NoDuplicateKey

-----------------------------------------------------------------------------
(* SpecConv: any sequence of get_or_create_conversation calls by the        *)
(* backends of two accounts                                                 *)

MaxConversations == 3

ConversationIds == {[str |-> "1"], [int |-> 1], [str |-> "2"]}

\* The optional attributes the backends pass: Hangouts (download_conversation),
\* Google Talk (parse_multipart_email) and Slack (synchronize_channels).
ConversationAttributes ==
    {[import_complete |-> FALSE, is_group_conversation |-> FALSE,
      last_modified |-> t, import_errors |-> FALSE] : t \in {1, 2}}
    \cup {[last_modified |-> 1]}
    \cup {[is_group_conversation |-> TRUE, name |-> "#general"]}

InitConv ==
    /\ accounts = TwoAccounts
    /\ contacts = {}
    /\ email_addresses = {}
    /\ telephone_numbers = {}
    /\ conversations = {}
    /\ messages = {}
    /\ stack = NewStats
    /\ external_id_cache = <<>>
    /\ remote = NoRemote
    /\ run = NoRun
    /\ ret = [op |-> "none"]
    /\ disk = session

GetOrCreateConversation ==
    \E a \in accounts, e \in ConversationIds, attrs \in ConversationAttributes :
        \E got \in {get_or_create_conversation(conversations, stack, a.id, e, attrs)} :
            /\ ret.op = "none"
            /\ got.created => Cardinality(conversations) < MaxConversations
            /\ conversations' = got.conversations
            /\ stack' = got.stack
            /\ ret' = [op |-> "get_or_create_conversation", account |-> a.id,
                       external_id |-> e, attributes |-> attrs, raised |-> got.raised,
                       created |-> got.created, obj |-> got.obj]
            /\ UNCHANGED <<accounts, contacts, email_addresses, telephone_numbers,
                           messages, external_id_cache, remote, run, disk>>

\* The caller has taken the returned value.
Return ==
    /\ ret.op # "none"
    /\ ret' = [op |-> "none"]
    /\ UNCHANGED <<accounts, contacts, email_addresses, telephone_numbers,
                   conversations, messages, stack, external_id_cache, remote, run, disk>>

NextConv == GetOrCreateConversation \/ Return

SpecConv == InitConv /\ [][NextConv]_vars

\* At most one conversation per account and external id.
OneConversationPerExternalId ==
    \A c1, c2 \in conversations :
        (c1.account = c2.account /\ c1.external_id = c2.external_id) => c1.id = c2.id

\* C6: after any sequence of get_or_create_conversation calls each account
\* holds at most one conversation per external id; a call for a stored
\* (account, external id) pair returns the stored conversation, changes no
\* attribute of any conversation and leaves conversations_added as it was; a
\* call for a pair that is not stored adds one row and one to conversations_added.
C6_ConversationGetOrCreate ==
    [][ret'.op = "get_or_create_conversation" =>
        LET stored == {c \in conversations : /\ c.account = ret'.account
                                             /\ c.external_id = str(ret'.external_id)}
        IN  /\ OneConversationPerExternalId'
            /\ ret'.raised = None
            /\ ret'.created = (stored = {})
            /\ stored # {} =>
                  /\ ret'.obj \in {c.id : c \in stored}
                  /\ conversations' = conversations
                  /\ stack' = stack
            /\ stored = {} =>
                  /\ conversations \subseteq conversations'
                  /\ Cardinality(conversations') = Cardinality(conversations) + 1
                  /\ Row(conversations', ret'.obj).account = ret'.account
                  /\ Row(conversations', ret'.obj).external_id = str(ret'.external_id)
                  /\ stack' = Incr(stack, "conversations_added")]_vars

\* A call that found a stored conversation whose last_modified differs from the
\* one supplied, while the other account holds the same external id.
C6_Witness ==
    /\ ret.op = "get_or_create_conversation"
    /\ ret.created = FALSE
    /\ "last_modified" \in DOMAIN ret.attributes
    /\ Row(conversations, ret.obj).last_modified # ret.attributes.last_modified
    /\ \E c \in conversations : /\ c.account # ret.account
                                /\ c.external_id = str(ret.external_id)

-----------------------------------------------------------------------------
(* SpecContact: any sequence of get_or_create_contact calls by the backend  *)
(* of account 1, next to a contact that belongs to account 2                *)

MaxContacts == 3

\* What the backends pass: an external id with a name (Hangouts, Slack), an
\* email address with a name (Google Talk), names that are None (Telegram),
\* email addresses and telephone numbers in singular and plural form.
ContactDescriptors ==
    { [external_id |-> "u1", full_name |-> "Alice"],
      [external_id |-> "u1", last_name |-> "Smith"],
      [external_id |-> "u1", full_name |-> "Bob Lee Ray"],
      [external_id |-> "u2", email_address |-> "a"],
      [external_id |-> "u1", full_name |-> "Bob Lee Ray", email_address |-> "a",
       telephone_number |-> "p"],
      [email_address |-> "a", full_name |-> "Alice Smith"],
      [telephone_number |-> "p"],
      [external_id |-> "u1", first_name |-> None, last_name |-> None,
       telephone_number |-> None],
      [email_addresses |-> <<"b", "a">>],
      [email_addresses |-> <<"a">>, email_address |-> "a"] }

\* The archive holds a contact of account 2 whose external id and email
\* address also occur in account 1.
ForeignWorld ==
    get_or_create_contact(EmptyWorld, 2,
        [external_id |-> "u1", first_name |-> "Zed", email_address |-> "a"]).w

InitContact ==
    /\ accounts = TwoAccounts
    /\ contacts = ForeignWorld.contacts
    /\ email_addresses = ForeignWorld.email_addresses
    /\ telephone_numbers = ForeignWorld.telephone_numbers
    /\ conversations = {}
    /\ messages = {}
    /\ stack = NewStats
    /\ external_id_cache = <<>>
    /\ remote = NoRemote
    /\ run = NoRun
    /\ ret = [op |-> "none"]
    /\ disk = session

GetOrCreateContact ==
    \E d \in ContactDescriptors :
        \E got \in {get_or_create_contact(
                       [contacts |-> contacts, email_addresses |-> email_addresses,
                        telephone_numbers |-> telephone_numbers, stack |-> stack,
                        cache |-> external_id_cache], 1, d)} :
            /\ ret.op = "none"
            /\ got.created => Cardinality(contacts) < MaxContacts
            /\ contacts' = got.w.contacts
            /\ email_addresses' = got.w.email_addresses
            /\ telephone_numbers' = got.w.telephone_numbers
            /\ stack' = got.w.stack
            /\ external_id_cache' = got.w.cache
            /\ ret' = [op |-> "get_or_create_contact", account |-> 1, attributes |-> d,
                       raised |-> got.raised, contact |-> got.contact,
                       created |-> got.created, appended |-> got.appended]
            /\ UNCHANGED <<accounts, conversations, messages, remote, run, disk>>

NextContact == GetOrCreateContact \/ Return

SpecContact == InitContact /\ [][NextContact]_vars

\* The attributes of a call after the singular forms and full_name are rewritten.
Supplied(d) ==
    split_full_name(plural_form(plural_form(d, "email_address", "email_addresses"),
                                "telephone_number", "telephone_numbers"))

SuppliedList(d, plural) ==
    IF plural \in DOMAIN Supplied(d) THEN Supplied(d)[plural] ELSE <<>>

ScalarFields == {"external_id", "first_name", "last_name"}

\* C2: a call never replaces a non-empty external_id, first_name or last_name of
\* a stored contact and never removes a contact or a link; an attribute of a
\* stored contact changes only when it was empty, the contact is the one the
\* call resolved to and the new value is the non-empty value the call supplied.
C2_MergeNeverClobbers ==
    [][ret'.op = "get_or_create_contact" =>
        \A c \in contacts :
            \E c2 \in contacts' :
                /\ c2.id = c.id
                /\ c2.account = c.account
                /\ c.email_addresses \subseteq c2.email_addresses
                /\ c.telephone_numbers \subseteq c2.telephone_numbers
                /\ \A f \in ScalarFields :
                      /\ Truthy(c[f]) => c2[f] = c[f]
                      /\ c2[f] # c[f] =>
                            /\ ret'.contact = c.id
                            /\ Truthy(Get(Supplied(ret'.attributes), f))
                            /\ c2[f] = Supplied(ret'.attributes)[f]]_vars

\* A call resolved to a stored contact whose external id, first name and last
\* name all differ from the non-empty values the call supplied.
C2_Witness ==
    /\ ret.op = "get_or_create_contact"
    /\ ret.raised = None
    /\ ret.created = FALSE
    /\ \A f \in ScalarFields :
          /\ Truthy(Get(Supplied(ret.attributes), f))
          /\ Truthy(Row(contacts, ret.contact)[f])
          /\ Row(contacts, ret.contact)[f] # Supplied(ret.attributes)[f]

OwnContacts == {c \in contacts : c.account = 1}

\* C3: a call that resolves to a stored contact adds one to contacts_changed
\* when it filled an attribute or linked an email address or telephone number
\* to the contact, and leaves contacts_changed alone otherwise.  From an
\* archive without contacts of the account, (external_id "u1", full_name
\* "Alice") creates Alice with contacts_added 1 and contacts_changed 0, and
\* (external_id "u1", last_name "Smith") then gives one contact Alice Smith
\* with contacts_added 1 and contacts_changed 1.
C3_ChangedCountedOnce ==
    [][ret'.op = "get_or_create_contact" =>
        /\ (ret'.raised = None /\ ~ret'.created) =>
              LET before == Row(contacts, ret'.contact)
                  after == Row(contacts', ret'.contact)
                  changed == \/ \E f \in ScalarFields : after[f] # before[f]
                             \/ after.email_addresses # before.email_addresses
                             \/ after.telephone_numbers # before.telephone_numbers
              IN  /\ scope(stack').contacts_changed =
                        scope(stack).contacts_changed + (IF changed THEN 1 ELSE 0)
                  /\ scope(stack').contacts_added = scope(stack).contacts_added
        /\ (ret'.attributes = [external_id |-> "u1", full_name |-> "Alice"]
            /\ OwnContacts = {} /\ stack = NewStats) =>
              /\ \E c \in OwnContacts' :
                    /\ OwnContacts' = {c}
                    /\ c.external_id = "u1" /\ c.first_name = "Alice"
                    /\ c.last_name = None
              /\ scope(stack').contacts_added = 1
              /\ scope(stack').contacts_changed = 0
        /\ (ret'.attributes = [external_id |-> "u1", last_name |-> "Smith"]
            /\ \E c \in OwnContacts :
                  /\ OwnContacts = {c}
                  /\ c.external_id = "u1" /\ c.first_name = "Alice"
                  /\ c.last_name = None
            /\ scope(stack).contacts_added = 1
            /\ scope(stack).contacts_changed = 0) =>
              /\ \E c \in OwnContacts' :
                    /\ OwnContacts' = {c}
                    /\ c.external_id = "u1" /\ c.first_name = "Alice"
                    /\ c.last_name = "Smith"
              /\ scope(stack').contacts_added = 1
              /\ scope(stack').contacts_changed = 1]_vars

\* The second call of the example has returned: one contact Alice Smith, one
\* contact added, one contact changed.
C3_Witness ==
    /\ ret.op = "get_or_create_contact"
    /\ ret.attributes = [external_id |-> "u1", last_name |-> "Smith"]
    /\ ret.created = FALSE
    /\ \E c \in OwnContacts :
          /\ OwnContacts = {c}
          /\ c.id = ret.contact
          /\ c.first_name = "Alice" /\ c.last_name = "Smith"
    /\ scope(stack).contacts_added = 1
    /\ scope(stack).contacts_changed = 1

\* The stored contacts of the account linked to the first value of the list
\* that is linked to any of them.
RECURSIVE FirstLinked(_, _)
FirstLinked(values, field) ==
    IF values = <<>> THEN {}
    ELSE LET linked == {c \in OwnContacts : Head(values) \in c[field]}
         IN  IF linked # {} THEN linked ELSE FirstLinked(Tail(values), field)

\* The stored contacts a call has to resolve to: by external id, else by the
\* first linked email address, else by the first linked telephone number.
Matching(d) ==
    LET by_id == {c \in OwnContacts : /\ Truthy(Get(d, "external_id"))
                                      /\ c.external_id = d.external_id}
        by_email == FirstLinked(SuppliedList(d, "email_addresses"), "email_addresses")
        by_phone == FirstLinked(SuppliedList(d, "telephone_numbers"), "telephone_numbers")
    IN  IF by_id # {} THEN by_id ELSE IF by_email # {} THEN by_email ELSE by_phone

\* C4: a call that returns resolves to the contact matching the external id,
\* else the first supplied email address that is linked, else the first
\* supplied telephone number that is linked; it creates a contact exactly when
\* none of them matches.
C4_ResolutionOrder ==
    [][(ret'.op = "get_or_create_contact" /\ ret'.raised = None) =>
        /\ ret'.created = (Matching(ret'.attributes) = {})
        /\ Matching(ret'.attributes) # {} =>
              ret'.contact \in {c.id : c \in Matching(ret'.attributes)}]_vars

\* C5: a call whose external id and email addresses match no stored contact
\* and whose telephone number is linked to one stored contact of the account
\* returns that contact and creates none: contacts_added stays as it was.
C5_ResolvedByTelephoneNumber ==
    [][ret'.op = "get_or_create_contact" =>
        LET d == ret'.attributes
            by_id == {c \in OwnContacts : /\ Truthy(Get(d, "external_id"))
                                          /\ c.external_id = d.external_id}
            by_email == FirstLinked(SuppliedList(d, "email_addresses"), "email_addresses")
            by_phone == FirstLinked(SuppliedList(d, "telephone_numbers"), "telephone_numbers")
        IN  (by_id = {} /\ by_email = {} /\ Cardinality(by_phone) = 1) =>
                /\ ret'.raised = None
                /\ ret'.created = FALSE
                /\ ret'.contact \in {c.id : c \in by_phone}
                /\ Cardinality(contacts') = Cardinality(contacts)
                /\ scope(stack').contacts_added = scope(stack).contacts_added]_vars

-----------------------------------------------------------------------------
(* The Google Hangouts backend: the remote service and the batch download   *)

NetworkError == "NetworkError"
TypeError == "TypeError"
\* Any exception that is not a hangups NetworkError.
Exception == "Exception"

\* HangoutsBackend.retry_count
retry_count == 5

\* The back-off of download_message_batch, in half seconds: "back_off = 0.5"
\* and "min(back_off * 2, 10)".
InitialBackOff == 1
MaxBackOff == 20

BatchSize == 2
MaxEvents == 3
MaxFailures == 6

Min(a, b) == IF a <= b THEN a ELSE b

\* The position of the event with the given id in a conversation's events.
IndexOf(events, event_id) == CHOOSE i \in 1..Len(events) : events[i].id_ = event_id

\* conversation.get_events(event_id): the events preceding event_id, or the
\* newest ones when event_id is None, at most BatchSize of them.
get_events(conversation, event_id) ==
    LET events == conversation.events
        before == IF event_id = None THEN events
                  ELSE SubSeq(events, 1, IndexOf(events, event_id) - 1)
    IN  SubSeq(before, Len(before) - Min(Len(before), BatchSize) + 1, Len(before))

\* As request_loop, with "except Exception" in the place of
\* "except hangups.exceptions.NetworkError".
RECURSIVE request_loop_catching_all(_, _, _, _, _, _, _)
request_loop_catching_all(conversation, event_id, failures, error, request_nr, back_off, slept) ==
    IF request_nr >= retry_count
    THEN [raised |-> None, none |-> TRUE, batch |-> <<>>,
          calls |-> request_nr - 1, slept |-> slept]
    ELSE IF request_nr <= failures \/ error # None
    THEN request_loop_catching_all(conversation, event_id, failures, error, request_nr + 1,
                                   Min(back_off * 2, MaxBackOff), Append(slept, back_off))
    ELSE [raised |-> None, none |-> FALSE, batch |-> get_events(conversation, event_id),
          calls |-> request_nr, slept |-> slept]

\* As request_loop_for, with "back_off = back_off * 2" in the place of
\* "back_off = min(back_off * 2, 10)".
RECURSIVE request_loop_for_uncapped(_, _, _, _, _, _, _, _)
request_loop_for_uncapped(retry, conversation, event_id, failures, error, request_nr, back_off, slept) ==
    IF request_nr >= retry
    THEN [raised |-> None, none |-> TRUE, batch |-> <<>>,
          calls |-> request_nr - 1, slept |-> slept]
    ELSE IF request_nr <= failures
    THEN request_loop_for_uncapped(retry, conversation, event_id, failures, error,
                                   request_nr + 1, back_off * 2, Append(slept, back_off))
    ELSE IF error # None
    THEN [raised |-> error, none |-> FALSE, batch |-> <<>>,
          calls |-> request_nr, slept |-> slept]
    ELSE [raised |-> None, none |-> FALSE, batch |-> get_events(conversation, event_id),
          calls |-> request_nr, slept |-> slept]

\* "for request_nr in range(1, self.retry_count)" with self.retry_count =
\* retry: the service fails the first `failures` requests with a NetworkError
\* and then raises `error`, or answers when error is None.  When the range is
\* exhausted the method falls off its end and returns None (none is TRUE).
RECURSIVE request_loop_for(_, _, _, _, _, _, _, _)
request_loop_for(retry, conversation, event_id, failures, error, request_nr, back_off, slept) ==
    IF request_nr >= retry
    THEN [raised |-> None, none |-> TRUE, batch |-> <<>>,
          calls |-> request_nr - 1, slept |-> slept]
    ELSE IF request_nr <= failures
    THEN IF request_nr < retry
         THEN request_loop_for(retry, conversation, event_id, failures, error, request_nr + 1,
                               Min(back_off * 2, MaxBackOff), Append(slept, back_off))
         ELSE [raised |-> NetworkError, none |-> FALSE, batch |-> <<>>,
               calls |-> request_nr, slept |-> slept]
    ELSE IF error # None
    THEN [raised |-> error, none |-> FALSE, batch |-> <<>>,
          calls |-> request_nr, slept |-> slept]
    ELSE [raised |-> None, none |-> FALSE, batch |-> get_events(conversation, event_id),
          calls |-> request_nr, slept |-> slept]

\* The loop with the retry_count of the backend.
request_loop(conversation, event_id, failures, error, request_nr, back_off, slept) ==
    request_loop_for(retry_count, conversation, event_id, failures, error, request_nr,
                     back_off, slept)

download_message_batch(conversation, event_id, failures, error) ==
    request_loop(conversation, event_id, failures, error, 1, InitialBackOff, <<>>)

\* The service knows Alice and a user that hangups made up; conversation c1
\* has no events yet, the group conversation c2 holds one message of the
\* made-up user.
DEFAULT_NAME == "Unknown"

InitialRemote ==
    [users |-> << [gaia_id |-> "u1", full_name |-> "Alice", emails |-> <<"a">>],
                  [gaia_id |-> "u9", full_name |-> DEFAULT_NAME, emails |-> <<>>] >>,
     conversations |->
        << [id_ |-> "c1", last_modified |-> 1, group |-> FALSE, events |-> <<>>],
           [id_ |-> "c2", last_modified |-> 1, group |-> TRUE,
            events |-> << [id_ |-> "1", timestamp |-> 1, chat |-> TRUE,
                           gaia_id |-> "u9", text |-> "hi"] >>] >>]

\* A chat message of Alice, or an event that is not a ChatMessageEvent.
EventKinds == {TRUE, FALSE}

\* Between runs an event is added to conversation c1 of the service.
RemoteActivity ==
    \E i \in {1}, chat \in EventKinds :
        LET c == remote.conversations[i]
            k == Len(c.events) + 1
        IN  /\ run.pc = "idle"
            /\ ret.op = "none"
            /\ Len(c.events) < MaxEvents
            /\ remote' = [remote EXCEPT !.conversations[i] =
                             [c EXCEPT !.events = Append(@, [id_ |-> ToString(k), timestamp |-> k,
                                                             chat |-> chat, gaia_id |-> "u1",
                                                             text |-> "hi"]),
                                       !.last_modified = k + 1]]
            /\ run' = [run EXCEPT !.previous = "none", !.repeat = FALSE]
            /\ UNCHANGED <<accounts, contacts, email_addresses, telephone_numbers,
                           conversations, messages, stack, external_id_cache, ret, disk>>

-----------------------------------------------------------------------------
(* SpecRetry: download_message_batch against a service that fails the first *)
(* requests of a call                                                       *)

InitRetry ==
    /\ accounts = {}
    /\ contacts = {}
    /\ email_addresses = {}
    /\ telephone_numbers = {}
    /\ conversations = {}
    /\ messages = {}
    /\ stack = NewStats
    /\ external_id_cache = <<>>
    /\ remote = InitialRemote
    /\ run = NoRun
    /\ ret = [op |-> "none"]
    /\ disk = session

DownloadMessageBatch ==
    \E i \in 1..Len(remote.conversations), failures \in 0..MaxFailures,
       error \in {None, Exception} :
        \E event_id \in {None} \cup {remote.conversations[i].events[k].id_ :
                                        k \in 1..Len(remote.conversations[i].events)} :
            \E got \in {download_message_batch(remote.conversations[i], event_id,
                                                failures, error)} :
                /\ ret.op = "none"
                /\ ret' = [op |-> "download_message_batch", conversation |-> i,
                           event_id |-> event_id, failures |-> failures, error |-> error,
                           raised |-> got.raised, none |-> got.none, batch |-> got.batch,
                           calls |-> got.calls, slept |-> got.slept]
                /\ UNCHANGED <<accounts, contacts, email_addresses, telephone_numbers,
                               conversations, messages, stack, external_id_cache,
                               remote, run, disk>>

NextRetry == RemoteActivity \/ DownloadMessageBatch \/ Return

SpecRetry == InitRetry /\ [][NextRetry]_vars

\* C9: with retry_count 5, a call whose first four requests fail and whose
\* fifth would succeed makes five requests, sleeps 0.5, 1, 2 and 4 seconds
\* (1, 2, 4 and 8 half seconds) between them and returns the batch of the fifth.
C9_FifthAttemptSucceeds ==
    (/\ ret.op = "download_message_batch"
     /\ ret.failures = retry_count - 1
     /\ ret.error = None) =>
        /\ ret.calls = retry_count
        /\ ret.slept = <<1, 2, 4, 8>>
        /\ ret.raised = None
        /\ ret.none = FALSE
        /\ ret.batch = get_events(remote.conversations[ret.conversation], ret.event_id)

\* C10: a call of which every request failed ends by raising NetworkError; a
\* call that returns normally returns a batch.
C10_ExhaustionPropagates ==
    ret.op = "download_message_batch" =>
        /\ ret.failures >= ret.calls => ret.raised = NetworkError
        /\ ret.raised = None => ret.none = FALSE

\* C11: a request that raises an exception other than NetworkError is the last
\* request of the call: the exception leaves download_message_batch, no
\* request follows it and no sleep follows it (the only sleeps are those after
\* the NetworkErrors before it).  When the first request raises it, the
\* service was called exactly once and nothing was slept.
C11_PermanentErrorNotRetried ==
    (/\ ret.op = "download_message_batch"
     /\ ret.error # None
     /\ ret.calls > ret.failures) =>
        /\ ret.raised = ret.error
        /\ ret.calls = ret.failures + 1
        /\ Len(ret.slept) = ret.failures
        /\ ret.failures = 0 => ret.calls = 1 /\ ret.slept = <<>>

C11_Witness ==
    /\ ret.op = "download_message_batch"
    /\ ret.error = Exception
    /\ ret.failures = 0
    /\ ret.raised = Exception
    /\ ret.calls = 1

-----------------------------------------------------------------------------
(* The Google Hangouts backend: one synchronization run                     *)

\* BackendStats.push and BackendStats.pop
push(st) == Append(st, ZeroScope)

\* As pop, the counters of the inner scope replacing those of the outer one.
pop_overwriting(st) ==
    LET counters == st[Len(st)]
        rest == SubSeq(st, 1, Len(st) - 1)
    IN  [rest EXCEPT ![Len(rest)] = [n \in CounterNames |-> counters[n]]]

pop(st) ==
    LET counters == st[Len(st)]
        rest == SubSeq(st, 1, Len(st) - 1)
    IN  [rest EXCEPT ![Len(rest)] = [n \in CounterNames |-> @[n] + counters[n]]]

\* As BackendStats_exit, the scope staying open when the block raised.
BackendStats_exit_unless_raised(st, exc_type) ==
    IF exc_type # None THEN st ELSE pop(st)

\* BackendStats.__exit__, at the end of "with self.stats:" and of "with
\* self.import_stats:": pop(), whether or not the block raised.
BackendStats_exit(st, exc_type) == pop(st)

\* ChatArchiveBackend.account: the account row is looked up, and created
\* when it is missing, the first time the backend needs it.
account(accts, backend_name, account_name) ==
    LET found == {a \in accts : a.backend = backend_name /\ a.name = account_name}
        obj == [id |-> NextId(accts), backend |-> backend_name, name |-> account_name]
    IN  IF found # {}
        THEN [id |-> (CHOOSE a \in found : TRUE).id, accounts |-> accts]
        ELSE [id |-> obj.id, accounts |-> accts \cup {obj}]

is_bogus_user(user) == user.full_name = DEFAULT_NAME \/ ~Truthy(user.gaia_id)

\* download_all_contacts: s is [raised, w, bogus_user_ids], w as for
\* get_or_create_contact.  An exception ends the loop.
RECURSIVE download_all_contacts(_, _, _)
download_all_contacts(s, account_id, users) ==
    IF users = <<>> \/ s.raised # None
    THEN s
    ELSE LET user == Head(users)
             got == get_or_create_contact(s.w, account_id,
                        [email_addresses |-> user.emails, external_id |-> user.gaia_id,
                         full_name |-> user.full_name])
         IN  IF is_bogus_user(user)
             THEN download_all_contacts(
                      [s EXCEPT !.bogus_user_ids = @ \cup {user.gaia_id}],
                      account_id, Tail(users))
             ELSE download_all_contacts(
                      [raised |-> got.raised, w |-> got.w,
                       bogus_user_ids |-> s.bogus_user_ids],
                      account_id, Tail(users))

\* Conversation.newest_message: ORDER BY timestamp DESC, first row (NoRow when
\* the conversation has no messages).
newest_message(msgs, conversation) ==
    LET own == {m \in msgs : m.conversation = conversation}
    IN  IF own = {} THEN NoRow
        ELSE (CHOOSE m \in own : \A o \in own : o.timestamp <= m.timestamp).id

\* Conversation.oldest_message: ORDER BY timestamp ASC, first row.
oldest_message(msgs, conversation) ==
    LET own == {m \in msgs : m.conversation = conversation}
    IN  IF own = {} THEN NoRow
        ELSE (CHOOSE m \in own : \A o \in own : m.timestamp <= o.timestamp).id

\* html.escape(text, quote=False) on the message texts of the model.
html_escape(text) == IF text = "<hi>" THEN "&lt;hi&gt;" ELSE text

\* get_message_html: the escaped text of the (unformatted) segments.
get_message_html(event) == html_escape(event.text)

\* The second loop of download_all_messages over the ChatMessageEvents of a
\* batch, in the order of the batch (the sort key is the same for all of
\* them): s is [raised, messages, stack, cache, new_messages].
RECURSIVE import_events(_, _, _, _, _, _)
import_events(s, events, conversation_in_db, account_id, bogus_user_ids, cs) ==
    IF events = <<>> \/ s.raised # None
    THEN s
    ELSE LET event == Head(events)
             known == event.gaia_id \notin bogus_user_ids
             found == IF known
                      THEN find_contact_by_external_id(cs, s.cache, account_id, event.gaia_id)
                      ELSE [raised |-> None, contact |-> NoRow, cache |-> s.cache]
             attributes == [external_id |-> event.id_, html |-> get_message_html(event),
                            text |-> event.text, timestamp |-> event.timestamp]
             got == get_or_create_message(s.messages, s.stack, conversation_in_db,
                        IF known THEN ("sender" :> found.contact) @@ attributes
                        ELSE attributes)
         IN  IF ~event.chat
             THEN import_events(s, Tail(events), conversation_in_db, account_id,
                                bogus_user_ids, cs)
             ELSE IF found.raised # None
             THEN [s EXCEPT !.raised = found.raised]
             ELSE import_events(
                      [raised |-> got.raised, messages |-> got.messages,
                       stack |-> got.stack, cache |-> found.cache,
                       new_messages |-> IF got.created
                                        THEN s.new_messages \cup {got.obj}
                                        ELSE s.new_messages],
                      Tail(events), conversation_in_db, account_id, bogus_user_ids, cs)

-----------------------------------------------------------------------------
(* SpecSync: runs of the Hangouts backend of one account, each in a process *)
(* of its own, with or without --force, against a service that gains       *)
(* events between the runs and may fail any batch download                 *)

backend_name == "hangouts"
account_name == "default"

\* A batch download is answered at once, or the service fails every request
\* with a NetworkError, or the first request raises another exception.
Outages ==
    {[failures |-> 0, error |-> None],
     [failures |-> retry_count - 1, error |-> None],
     [failures |-> 0, error |-> Exception]}

InitSync ==
    /\ accounts = {}
    /\ contacts = {}
    /\ email_addresses = {}
    /\ telephone_numbers = {}
    /\ conversations = {}
    /\ messages = {}
    /\ stack = NewStats
    /\ external_id_cache = <<>>
    /\ remote = InitialRemote
    /\ run = NoRun
    /\ ret = [op |-> "none"]
    /\ disk = session

\* DatabaseClient.commit_changes: session.commit() writes the tables to disk.
commit_changes == disk' = session'

\* The program ends without a session.commit(): the writes since the last
\* commit are gone and the next program finds the tables as they are on disk.
lose_session ==
    /\ accounts' = disk.accounts
    /\ contacts' = disk.contacts
    /\ email_addresses' = disk.email_addresses
    /\ telephone_numbers' = disk.telephone_numbers
    /\ conversations' = disk.conversations
    /\ messages' = disk.messages
    /\ disk' = disk

\* As exit, committing whether or not an exception ended the with block.
exit_committing(exc_type) ==
    /\ UNCHANGED <<accounts, contacts, email_addresses, telephone_numbers,
                   conversations, messages>>
    /\ commit_changes

\* DatabaseClient.__exit__, after which the program ends: "if exc_type is
\* None: self.commit_changes()".
exit(exc_type) ==
    IF exc_type = None
    THEN /\ UNCHANGED <<accounts, contacts, email_addresses, telephone_numbers,
                        conversations, messages>>
         /\ commit_changes
    ELSE lose_session

\* ChatArchive.synchronize enters "with self.import_stats" and creates the
\* backend object: new statistics, an empty cache, no bogus users.  `repeat`
\* records that the previous run ended without error, with the same --force
\* setting, and that the service has not changed since.
StartRun ==
    \E force \in BOOLEAN :
        /\ run.pc = "idle"
        /\ stack' = push(NewStats)
        /\ external_id_cache' = <<>>
        /\ run' = [run EXCEPT !.pc = "contacts", !.force = force, !.index = 1,
                              !.bogus_user_ids = {}, !.raised = None,
                              !.repeat = (run.previous = "ok" /\ run.previous_force = force)]
        /\ UNCHANGED <<accounts, contacts, email_addresses, telephone_numbers,
                       conversations, messages, remote, ret, disk>>

\* connect_then_sync up to and including download_all_contacts.
DownloadAllContacts ==
    /\ run.pc = "contacts"
    /\ \E acct \in {account(accounts, backend_name, account_name)} :
       \E got \in {download_all_contacts(
                       [raised |-> None,
                        w |-> [contacts |-> contacts, email_addresses |-> email_addresses,
                               telephone_numbers |-> telephone_numbers, stack |-> stack,
                               cache |-> external_id_cache],
                        bogus_user_ids |-> run.bogus_user_ids],
                       acct.id, remote.users)} :
        /\ accounts' = acct.accounts
        /\ contacts' = got.w.contacts
        /\ email_addresses' = got.w.email_addresses
        /\ telephone_numbers' = got.w.telephone_numbers
        /\ stack' = got.w.stack
        /\ external_id_cache' = got.w.cache
        /\ run' = [run EXCEPT !.pc = IF got.raised # None THEN "aborted" ELSE "conversations",
                              !.bogus_user_ids = got.bogus_user_ids]
        /\ UNCHANGED <<conversations, messages, remote, ret, disk>>

\* As next_conversation, without the "try ... except Exception" around
\* download_conversation: the exception leaves download_all_conversations.
next_conversation_uncaught(r, raised) ==
    IF raised # None
    THEN [r EXCEPT !.pc = "aborted", !.raised = raised]
    ELSE [r EXCEPT !.pc = "conversations", !.index = @ + 1, !.event_id = None,
                   !.raised = raised]

\* The loop of download_all_conversations moves to the next conversation;
\* raised is the exception that "except Exception" caught, or None.
next_conversation(r, raised) ==
    [r EXCEPT !.pc = "conversations", !.index = @ + 1, !.event_id = None,
              !.raised = raised]

\* As has_updates, an equal last_modified counting as an update.
has_updates_or_equal(conversation_in_db, last_modified) ==
    last_modified >= conversation_in_db.last_modified

\* download_conversation: "if last_modified > conversation_in_db.last_modified".
has_updates(conversation_in_db, last_modified) ==
    last_modified > conversation_in_db.last_modified

\* As skips_import_errors, without "and not self.archive.force".
skips_import_errors_despite_force(conversation_in_db, force) ==
    conversation_in_db.import_errors

\* download_conversation: "if conversation_in_db.import_errors and not
\* self.archive.force", the conversation is skipped.
skips_import_errors(conversation_in_db, force) ==
    conversation_in_db.import_errors /\ ~force

\* download_conversation up to the first batch download: the conversation
\* is looked up or created, then skipped, updated or (further) imported.
DownloadConversation ==
    /\ run.pc = "conversations"
    /\ run.index <= Len(remote.conversations)
    /\ \E conversation \in {remote.conversations[run.index]},
          acct \in {account(accounts, backend_name, account_name)} :
       \E got \in {get_or_create_conversation(conversations, stack, acct.id,
                       [str |-> conversation.id_],
                       [import_complete |-> FALSE,
                        is_group_conversation |-> conversation.group,
                        last_modified |-> conversation.last_modified,
                        import_errors |-> FALSE])} :
       LET conversation_in_db == Row(got.conversations, got.obj)
           oldest == oldest_message(messages, conversation_in_db.id)
           skip == skips_import_errors(conversation_in_db, run.force)
           update == /\ conversation_in_db.import_complete
                     /\ has_updates(conversation_in_db, conversation.last_modified)
       IN
        /\ accounts' = acct.accounts
        /\ conversations' = got.conversations
        /\ IF got.raised # None
           THEN /\ stack' = Incr(got.stack, "failed_conversations")
                /\ run' = next_conversation(run, got.raised)
           ELSE IF skip
           THEN /\ stack' = Incr(got.stack, "skipped_conversations")
                /\ run' = next_conversation(run, None)
           ELSE IF conversation_in_db.import_complete /\ ~update
           THEN /\ stack' = got.stack
                /\ run' = next_conversation(run, None)
           ELSE /\ stack' = push(got.stack)
                /\ run' = [run EXCEPT
                             !.pc = "messages",
                             !.raised = None,
                             !.path = IF update THEN "update" ELSE "initial",
                             !.event_id = IF update \/ oldest = NoRow THEN None
                                          ELSE Row(messages, oldest).external_id,
                             !.cursors = <<>>]
        /\ UNCHANGED <<contacts, email_addresses, telephone_numbers, messages,
                       external_id_cache, remote, ret, disk>>

\* As handle_import_errors, without the "except Exception" branch.
handle_import_errors_forgetting(conversation_in_db, raised) ==
    IF raised # None THEN conversation_in_db
    ELSE [conversation_in_db EXCEPT !.import_errors = FALSE]

\* As handle_import_errors, without the "else" branch.
handle_import_errors_keeping(conversation_in_db, raised) ==
    IF raised # None
    THEN [conversation_in_db EXCEPT !.import_errors = TRUE]
    ELSE conversation_in_db

\* handle_import_errors once download_all_messages has ended, normally
\* (raised is None) or with an exception.
handle_import_errors(conversation_in_db, raised) ==
    IF raised # None
    THEN [conversation_in_db EXCEPT !.import_errors = TRUE]
    ELSE [conversation_in_db EXCEPT !.import_errors = FALSE]

\* perform_initial_sync once handle_import_errors has returned:
\* "conversation_in_db.import_complete = True".
perform_initial_sync(conversation_in_db) ==
    [conversation_in_db EXCEPT !.import_complete = TRUE]

\* As update_last_modified, without the assignment.
update_last_modified_never(conversation_in_db, last_modified) ==
    conversation_in_db

\* download_conversation once handle_import_errors has returned:
\* "conversation_in_db.last_modified = last_modified".
update_last_modified(conversation_in_db, last_modified) ==
    [conversation_in_db EXCEPT !.last_modified = last_modified]

\* As first_new_message, taking the newest of the new messages.
last_new_message(new_messages) ==
    CHOOSE m \in new_messages : \A o \in new_messages : o.timestamp <= m.timestamp

\* "new_messages = sorted(new_messages, key=lambda m: m.timestamp)" and
\* "new_messages[0]": the oldest of the messages that the round created.
first_new_message(new_messages) ==
    CHOOSE m \in new_messages : \A o \in new_messages : m.timestamp <= o.timestamp

\* One round of the loop of download_all_messages, with what follows it in
\* handle_import_errors, perform_initial_sync, download_conversation and
\* download_all_conversations when the loop ends or an exception leaves it.
DownloadMessages ==
    /\ run.pc = "messages"
    /\ \E outage \in Outages,
          conversation \in {remote.conversations[run.index]},
          acct \in {account(accounts, backend_name, account_name)} :
       \E conversation_in_db \in {c \in conversations : /\ c.account = acct.id
                                                        /\ c.external_id = conversation.id_},
          out \in {download_message_batch(conversation, run.event_id,
                                          outage.failures, outage.error)} :
       \E imp \in {import_events(
                       [raised |-> None, messages |-> messages, stack |-> stack,
                        cache |-> external_id_cache, new_messages |-> {}],
                       out.batch, conversation_in_db.id, acct.id,
                       run.bogus_user_ids, contacts)} :
        LET raised == IF out.raised # None THEN out.raised
                      ELSE IF out.none THEN TypeError
                      ELSE imp.raised
            new_messages == {m \in imp.messages : m.id \in imp.new_messages}
            first == first_new_message(new_messages)
            others == conversations \ {conversation_in_db}
        IN  /\ messages' = imp.messages
            /\ external_id_cache' = imp.cache
            /\ IF raised # None
               THEN /\ conversations' =
                          others \cup {handle_import_errors(conversation_in_db, raised)}
                    /\ stack' = Incr(BackendStats_exit(imp.stack, raised),
                                     "failed_conversations")
                    /\ run' = [next_conversation(run, raised) EXCEPT
                                  !.cursors = Append(run.cursors, run.event_id)]
               ELSE IF new_messages = {}
               THEN /\ conversations' =
                          others \cup
                          {IF run.path = "update"
                           THEN update_last_modified(
                                    handle_import_errors(conversation_in_db, None),
                                    conversation.last_modified)
                           ELSE perform_initial_sync(
                                    handle_import_errors(conversation_in_db, None))}
                    /\ stack' = BackendStats_exit(imp.stack, None)
                    /\ run' = [next_conversation(run, None) EXCEPT
                                  !.cursors = Append(run.cursors, run.event_id)]
               ELSE /\ conversations' = conversations
                    /\ stack' = imp.stack
                    /\ run' = [run EXCEPT !.event_id = first.external_id,
                                          !.cursors = Append(run.cursors, run.event_id)]
            /\ UNCHANGED <<accounts, contacts, email_addresses, telephone_numbers,
                           remote, ret>>
            /\ IF raised = None /\ (new_messages # {} \/ run.path = "initial")
               THEN commit_changes
               ELSE disk' = disk

\* The run ends: "with self.import_stats" is left.  After the loop over the
\* conversations synchronize commits the changes; an exception that left
\* download_all_contacts ends the program without a commit.
FinishRun ==
    /\ \/ run.pc = "aborted"
       \/ run.pc = "conversations" /\ run.index > Len(remote.conversations)
    /\ exit(IF run.pc = "aborted" THEN run.raised ELSE None)
    /\ stack' = BackendStats_exit(stack, IF run.pc = "aborted" THEN run.raised ELSE None)
    /\ run' = [NoRun EXCEPT
                 !.previous = IF run.pc # "aborted" /\ scope(stack).failed_conversations = 0
                              THEN "ok" ELSE "failed",
                 !.previous_force = run.force,
                 !.repeat = run.repeat]
    /\ UNCHANGED <<external_id_cache, remote, ret>>

NextSync ==
    \/ RemoteActivity
    \/ StartRun
    \/ DownloadAllContacts
    \/ DownloadConversation
    \/ DownloadMessages
    \/ FinishRun

SpecSync == InitSync /\ [][NextSync]_vars

\* Control-C, which Python raises as KeyboardInterrupt in the main thread.
KeyboardInterrupt == "KeyboardInterrupt"

\* The operator interrupts a run.  KeyboardInterrupt is not an Exception, so
\* that neither download_all_conversations nor handle_import_errors catches
\* it; it leaves "with UserInterface(...) as program" through __exit__ and is
\* caught by main, which exits.
Interrupt ==
    /\ run.pc \notin {"idle", "aborted"}
    /\ exit(KeyboardInterrupt)
    /\ stack' = NewStats
    /\ external_id_cache' = <<>>
    /\ run' = [NoRun EXCEPT !.previous = "interrupted",
                            !.in_flight = IF run.pc = "messages" THEN run.index ELSE 0,
                            !.done = IF run.pc = "messages" THEN run.cursors ELSE <<>>]
    /\ UNCHANGED <<remote, ret>>

\* The process is killed during a run (or the machine loses power): no
\* handler runs.
Crash ==
    /\ run.pc \notin {"idle", "aborted"}
    /\ lose_session
    /\ stack' = NewStats
    /\ external_id_cache' = <<>>
    /\ run' = [NoRun EXCEPT !.previous = "crashed",
                            !.in_flight = IF run.pc = "messages" THEN run.index ELSE 0,
                            !.done = IF run.pc = "messages" THEN run.cursors ELSE <<>>]
    /\ UNCHANGED <<remote, ret>>

NextCrash == NextSync \/ Interrupt \/ Crash

SpecCrash == InitSync /\ [][NextCrash]_vars

Tables == <<accounts, contacts, email_addresses, telephone_numbers,
            conversations, messages>>

RunCounters == {"conversations_added", "messages_added", "contacts_added",
                "contacts_changed"}

\* C7: in a run that follows a run which ended without error, with the same
\* --force setting and with the service unchanged in between, no step adds,
\* removes or changes a row of any table, and the counters conversations_added,
\* messages_added, contacts_added and contacts_changed stay zero in every scope.
C7_SecondRunChangesNothing ==
    [][run'.repeat =>
        /\ Tables' = Tables
        /\ \A i \in 1..Len(stack') : \A n \in RunCounters : stack'[i][n] = 0]_vars

\* The timestamp of the event of a conversation with the given id.
TimestampOf(conversation, event_id) ==
    conversation.events[IndexOf(conversation.events, event_id)].timestamp

\* C8: when the initial synchronization of a conversation that already has
\* messages continues, the first batch is requested with the external id of
\* the stored message with the smallest timestamp as its cursor; every later
\* cursor of that synchronization and every message it adds is strictly older
\* than that first cursor; no stored message is changed or removed and no
\* message is added whose external id the conversation already holds.
C8_ResumeFromOldest ==
    [][(run.pc = "messages" /\ run.path = "initial") =>
        LET conversation == remote.conversations[run.index]
            conversation_in_db ==
                CHOOSE c \in conversations : c.external_id = conversation.id_
            stored == {m \in messages : m.conversation = conversation_in_db.id}
            cursors == run'.cursors
            added == messages' \ messages
        IN  /\ Len(cursors) = Len(run.cursors) + 1
            /\ (run.cursors = <<>> /\ stored # {}) =>
                  \E m \in stored : /\ \A o \in stored : m.timestamp <= o.timestamp
                                    /\ cursors[1] = m.external_id
            /\ (run.cursors = <<>> /\ stored = {}) => cursors[1] = None
            /\ cursors[1] # None =>
                  /\ \A i \in 2..Len(cursors) :
                        /\ cursors[i] # None
                        /\ TimestampOf(conversation, cursors[i])
                              < TimestampOf(conversation, cursors[1])
                  /\ \A m \in added :
                        m.timestamp < TimestampOf(conversation, cursors[1])
            /\ messages \subseteq messages'
            /\ \A m \in added :
                  /\ m.conversation = conversation_in_db.id
                  /\ \A o \in messages' :
                        (o.conversation = m.conversation /\ o.external_id = m.external_id)
                            => o.id = m.id]_vars

\* An initial synchronization that continued from the stored message "2" has
\* added the older message "1" and has ended with a second request.
C8_Witness ==
    /\ run.path = "initial"
    /\ run.cursors = <<"2", "1">>
    /\ \E c \in conversations :
          /\ c.external_id = "c1"
          /\ c.import_complete
          /\ {m.external_id : m \in {o \in messages : o.conversation = c.id}}
                = {"1", "2", "3"}



\* The row of the conversation that the run is at, or has just left (back
\* is 1), in the given table.
RowAt(convs, back) ==
    CHOOSE c \in convs : c.external_id = remote.conversations[run.index - back].id_

\* During a run the loop only moves forward, a conversation that the run is
\* not at keeps its row, and no message is ever deleted; after the run the
\* rows are as the run left them.
RestOfRunKeeps ==
    /\ messages \subseteq messages'
    /\ (run.pc \in {"conversations", "messages"} /\ run'.pc # "idle") =>
           run'.index >= run.index
    /\ \A c \in conversations :
          (\/ run.pc \notin {"conversations", "messages"}
           \/ run.index > Len(remote.conversations)
           \/ remote.conversations[run.index].id_ # c.external_id) => c \in conversations'

\* C13: when a round of an initial download ends with an exception that is
\* not a NetworkError, after earlier rounds of the same run imported and
\* committed messages, the conversation is left with import_errors set and
\* import_complete unset, the messages are all still stored, and the run moves
\* on to the next conversation; nothing in the rest of the run touches the row
\* or removes a message, so that is how the run ends.
C13_PermanentErrorKeepsEarlierBatches ==
    [][/\ (/\ run.pc = "messages"
           /\ run.path = "initial"
           /\ run.cursors # <<>>
           /\ run'.raised = Exception) =>
              /\ RowAt(conversations, 0).import_complete = FALSE
              /\ RowAt(conversations', 0).import_errors = TRUE
              /\ RowAt(conversations', 0).import_complete = FALSE
              /\ messages' = messages
              /\ \E m \in messages' : m.conversation = RowAt(conversations', 0).id
              /\ run'.pc = "conversations"
              /\ run'.index = run.index + 1
       /\ RestOfRunKeeps]_vars

\* An initial download has failed in its second or a later round.
C13_Witness ==
    /\ run.pc = "conversations"
    /\ run.raised = Exception
    /\ run.path = "initial"
    /\ Len(run.cursors) >= 2
    /\ RowAt(conversations, 1).import_errors
    /\ ~RowAt(conversations, 1).import_complete
    /\ \E m \in messages : m.conversation = RowAt(conversations, 1).id


\* The run is about to look at a conversation that the archive holds.
AtStoredConversation ==
    /\ run.pc = "conversations"
    /\ run.index <= Len(remote.conversations)
    /\ \E c \in conversations : c.external_id = remote.conversations[run.index].id_

\* C14: when a run comes to a conversation whose stored import_errors flag is
\* set, then without --force the run counts it as skipped and moves on: it
\* never enters download_all_messages (no batch is requested) and the
\* conversations and messages tables are left as they are; with --force the
\* run enters download_all_messages for it, with the cursor a download of
\* that conversation starts from.
C14_ErrorFlaggedSkippedUnlessForced ==
    [][(AtStoredConversation /\ RowAt(conversations, 0).import_errors) =>
          IF run.force
          THEN /\ run'.pc = "messages"
               /\ run'.index = run.index
               /\ run'.cursors = <<>>
          ELSE /\ run'.pc = "conversations"
               /\ run'.index = run.index + 1
               /\ run'.raised = None
               /\ conversations' = conversations
               /\ messages' = messages
               /\ scope(stack').skipped_conversations
                     = scope(stack).skipped_conversations + 1]_vars

\* A run without --force has skipped a conversation with import_errors set.
C14_Witness ==
    /\ run.pc = "conversations"
    /\ ~run.force
    /\ run.index > 1
    /\ scope(stack).skipped_conversations > 0
    /\ RowAt(conversations, 1).import_errors


\* C15: an exception raised while a conversation is downloaded is caught by
\* the loop over the conversations: it is counted, the loop moves to the next
\* conversation and the run is not aborted.  The loop visits the conversations
\* one by one, the run ends only when the loop has passed the last one, and
\* as long as it has not, the download of the conversation it is at can
\* start.
C15_FailureDoesNotStopTheRun ==
    /\ [][/\ (run.pc \in {"conversations", "messages"} /\ run'.raised # None) =>
                /\ run'.pc = "conversations"
                /\ run'.index = run.index + 1
                /\ Len(stack') = 2
                /\ scope(stack').failed_conversations > 0
          /\ run.pc \in {"conversations", "messages"} =>
                /\ run'.pc # "aborted"
                /\ run'.pc # "idle" => run'.index \in {run.index, run.index + 1}
                /\ run'.pc = "idle" => run.index > Len(remote.conversations)]_vars
    /\ []((run.pc = "conversations" /\ run.index <= Len(remote.conversations)) =>
              ENABLED DownloadConversation)

\* In one run the first conversation failed and the second one was then
\* imported to its start.
C15_Witness ==
    /\ run.pc = "conversations"
    /\ run.index = 3
    /\ scope(stack).conversations_added = 2
    /\ scope(stack).failed_conversations = 1
    /\ RowAt(conversations, 2).import_errors
    /\ RowAt(conversations, 1).import_complete
    /\ ~RowAt(conversations, 1).import_errors


\* The chat messages of the service's conversation with the given external
\* id that the archive does not hold and that are older than every message
\* the archive holds of that conversation.
UnfetchedOlder(row, msgs) ==
    LET conversation == CHOOSE c \in Range(remote.conversations) : c.id_ = row.external_id
        own == {m \in msgs : m.conversation = row.id}
    IN  {e \in Range(conversation.events) :
            /\ e.chat
            /\ \A m \in own : m.external_id # e.id_
            /\ \A m \in own : e.timestamp < m.timestamp}

\* C16: at the step that sets import_complete on a conversation, the service
\* holds no chat message of that conversation that is older than the oldest
\* stored one (than all of them) and was not fetched.
C16_CompleteMeansStartReached ==
    [][\A row \in conversations' :
          (/\ row.import_complete
           /\ \A old \in conversations : old.id = row.id => ~old.import_complete)
          => UnfetchedOlder(row, messages') = {}]_vars


\* C17: when the download of a conversation ends without an exception, the
\* conversation is left with import_errors unset, whatever it was before; an
\* initial download also leaves it with import_complete set, and an update
\* leaves import_complete set as it was.
C17_SuccessfulPassClearsErrors ==
    [][(/\ run.pc = "messages"
        /\ run'.pc = "conversations"
        /\ run'.raised = None) =>
           /\ RowAt(conversations', 0).import_errors = FALSE
           /\ RowAt(conversations', 0).import_complete = TRUE
           /\ run.path = "update" => RowAt(conversations, 0).import_complete = TRUE
           /\ run.path = "initial" => RowAt(conversations, 0).import_complete = FALSE]_vars

\* A run with --force has resumed the initial download of the first
\* conversation from a stored message (an earlier run failed in it and
\* flagged it) and has ended it without an exception.
C17_Witness ==
    /\ run.pc = "conversations"
    /\ run.index = 2
    /\ run.force
    /\ run.path = "initial"
    /\ run.cursors # <<>>
    /\ run.cursors[1] # None
    /\ run.raised = None
    /\ RowAt(conversations, 1).import_complete
    /\ ~RowAt(conversations, 1).import_errors


C19_UnchangedConversationSkipped ==
    [][(/\ AtStoredConversation
        /\ RowAt(conversations, 0).import_complete
        /\ remote.conversations[run.index].last_modified
              <= RowAt(conversations, 0).last_modified
        /\ run' # run) =>
           /\ run'.pc = "conversations"
           /\ run'.index = run.index + 1
           /\ run'.raised = None
           /\ messages' = messages
           /\ conversations' = conversations
           /\ stack' = stack
           /\ remote' = remote]_vars

\* A later run has passed the first conversation, which it had stored as
\* complete with messages in an earlier run and which has not changed since.
C19_Witness ==
    /\ run.pc = "conversations"
    /\ run.index = 2
    /\ run.raised = None
    /\ \A i \in 1..Len(stack) : stack[i] = ZeroScope
    /\ \E c \in conversations : c.external_id = remote.conversations[1].id_
    /\ RowAt(conversations, 1).import_complete
    /\ RowAt(conversations, 1).last_modified >= remote.conversations[1].last_modified
    /\ \E m \in messages : m.conversation = RowAt(conversations, 1).id


\* The newest stored message of the conversation the run is at.
NewestStored == Row(messages, newest_message(messages, RowAt(conversations, 0).id))

\* C20: the download of the updates of a conversation with import_complete
\* set, which has stored messages, starts at the external_id of its newest
\* stored message, and the events of the batch it requests first are all newer
\* than that message.
C20_UpdateStartsAfterNewestMessage ==
    (/\ run.pc = "messages"
     /\ run.path = "update"
     /\ run.cursors = <<>>
     /\ newest_message(messages, RowAt(conversations, 0).id) # NoRow) =>
        /\ run.event_id = NewestStored.external_id
        /\ \A e \in Range(get_events(remote.conversations[run.index], run.event_id)) :
              e.timestamp > NewestStored.timestamp


\* C21: download_all_messages commits after every batch that brought new
\* messages and perform_initial_sync commits when the conversation is
\* complete.  When a run is killed while it downloads a conversation and the
\* next run comes to that conversation, with the service unchanged, no request
\* of the next run is one whose batch the killed run had processed and
\* committed, and no message of the conversation is stored twice.
C21_CrashCostsOneBatch ==
    (/\ run.pc = "messages"
     /\ run.previous = "crashed"
     /\ run.in_flight = run.index) =>
        /\ run.event_id \notin Range(run.done)
        /\ \A m, o \in messages :
              (m.conversation = o.conversation /\ m.external_id = o.external_id) => m = o


\* The oldest message of a conversation on disk, None when it has none.
OldestOnDisk(conversation) ==
    IF oldest_message(disk.messages, conversation) = NoRow THEN None
    ELSE Row(disk.messages, oldest_message(disk.messages, conversation)).external_id

-----------------------------------------------------------------------------
(* The Google Talk backend: emails of the chats folder, single-part (one    *)
(* message) or multi-part (an XML fragment of message nodes)                *)

\* The bogus address of a private chat inside a group chat (BOGUS_EMAIL_PATTERN).
BogusAddress == "private-chat-1@groupchat.google.com"

\* value.split("/") on the Jabber IDs of the model.
jid_split(value) ==
    CASE value = "a" -> <<"a">>
      [] value = "b" -> <<"b">>
      [] value = "b/phone" -> <<"b", "phone">>
      [] value = "private-chat-1@groupchat.google.com/Alice" -> <<BogusAddress, "Alice">>
      [] value = "private-chat-1@groupchat.google.com/Alice Smith" ->
            <<BogusAddress, "Alice Smith">>
      [] value = "private-chat-1@groupchat.google.com/Ali" -> <<BogusAddress, "Ali">>
      [] value = "private-chat-1@groupchat.google.com/Zed" -> <<BogusAddress, "Zed">>

\* re.split(r"\W+", nickname)
tokens_of(nickname) ==
    CASE nickname = "Alice" -> <<"Alice">>
      [] nickname = "Alice Smith" -> <<"Alice", "Smith">>
      [] nickname = "Ali" -> <<"Ali">>
      [] nickname = "Zed" -> <<"Zed">>

\* column LIKE '%kw%' on the names, addresses and keywords of the model:
\* "Ali" is part of "Alice", no other keyword is part of another value; NULL
\* matches nothing.
like(value, kw) == value # None /\ (value = kw \/ (kw = "Ali" /\ value = "Alice"))

\* As contact_from_keywords, the first row being taken whenever there is one.
contact_from_keywords_first(cs, keywords) ==
    LET matching == {c \in cs :
                        \A i \in DOMAIN keywords :
                            \/ like(c.first_name, keywords[i])
                            \/ like(c.last_name, keywords[i])
                            \/ \E e \in c.email_addresses : like(e, keywords[i])}
    IN  IF matching = {} THEN NoRow
        ELSE (CHOOSE c \in matching : \A o \in matching : c.id <= o.id).id

\* contact_from_keywords: the rows of contacts outer-joined with their email
\* addresses that match every keyword; a contact is returned when exactly one
\* row is left, otherwise None.
contact_from_keywords(cs, keywords) ==
    LET rows == {r \in {c.id : c \in cs} \X ({None} \cup UNION {c.email_addresses : c \in cs}) :
                    LET c == Row(cs, r[1])
                    IN  IF c.email_addresses = {} THEN r[2] = None
                        ELSE r[2] \in c.email_addresses}
        left == {r \in rows :
                    \A i \in DOMAIN keywords :
                        \/ like(Row(cs, r[1]).first_name, keywords[i])
                        \/ like(Row(cs, r[1]).last_name, keywords[i])
                        \/ like(r[2], keywords[i])}
    IN  IF Cardinality(left) = 1 THEN (CHOOSE r \in left : TRUE)[1] ELSE NoRow

\* The part of the state of a Google Talk run that the contact methods work on.
contact_world(g) ==
    [contacts |-> g.contacts, email_addresses |-> g.email_addresses,
     telephone_numbers |-> g.telephone_numbers, stack |-> g.stack, cache |-> g.cache]

\* g after a call of get_or_create_contact that returned got.
after_contact(g, got) ==
    [g EXCEPT !.raised = got.raised, !.contacts = got.w.contacts,
              !.email_addresses = got.w.email_addresses,
              !.telephone_numbers = got.w.telephone_numbers,
              !.stack = got.w.stack, !.cache = got.w.cache]

\* contact_from_jid: [contact, g].  g.log keeps what the run did.  A bogus private-chat address is resolved
\* by the keywords of its nickname, any other address by get_or_create_contact.
contact_from_jid(g, account_id, value) ==
    LET components == jid_split(value)
        got == get_or_create_contact(contact_world(g), account_id,
                                     [email_address |-> components[1]])
    IN  IF Len(components) = 2 /\ components[1] = BogusAddress
        THEN [contact |-> contact_from_keywords(g.contacts, tokens_of(components[2])),
              g |-> [g EXCEPT !.log = Append(@,
                        [kind |-> "keywords", keywords |-> tokens_of(components[2]),
                         contacts |-> g.contacts,
                         contact |-> contact_from_keywords(g.contacts,
                                                           tokens_of(components[2]))])]]
        ELSE [contact |-> got.contact, g |-> after_contact(g, got)]


\* The row of the conversation with one column set.
set_column(convs, id, column, value) ==
    {IF c.id = id THEN [c EXCEPT ![column] = value] ELSE c : c \in convs}

\* str.rstrip() and str.isspace() on the body texts of the model.
rstrip(text) == IF text = "hi " THEN "hi" ELSE text
isspace(text) == text = " "

\* The end of the loop body of parse_xml: get_or_create_message(**attributes),
\* who holding the sender and the recipient the branch has set.
import_node(g, conversation, node, who) ==
    IF g.raised # None THEN g
    ELSE LET got == get_or_create_message(g.messages, g.stack, conversation,
                        who @@ [html |-> None, text |-> rstrip(node.text),
                                timestamp |-> node.ms])
         IN  [g EXCEPT !.raised = got.raised, !.messages = got.messages,
                       !.stack = got.stack,
                       !.log = Append(@, [kind |-> "message", who |-> who,
                                          raised |-> got.raised, obj |-> got.obj,
                                          created |-> got.created, ms |-> node.ms])]

\* A group message: the sender is looked up, there is no recipient.
group_message(s, conversation, node) ==
    import_node(s.g, conversation, node, [sender |-> s.contact])

\* A private message once the sender s was looked up: the recipient is
\* looked up in the state the first lookup left.
private_recipient(sender, r, conversation, node) ==
    import_node(r.g, conversation, node, [sender |-> sender, recipient |-> r.contact])

private_message(s, account_id, conversation, node) ==
    IF s.g.raised # None THEN s.g
    ELSE private_recipient(s.contact, contact_from_jid(s.g, account_id, node.to),
                           conversation, node)

\* The loop body of parse_xml for one message node.  A node is a record
\* [type, jid, from, to, ms, text] with None for an attribute it lacks.
message_node(g, account_id, conversation, node) ==
    IF ~Truthy(node.text) \/ isspace(node.text) THEN g
    ELSE IF node.type = "groupchat"
    THEN IF Truthy(node.jid)
         THEN group_message(
                  contact_from_jid(
                      [g EXCEPT !.conversations =
                           set_column(@, conversation, "is_group_conversation", TRUE)],
                      account_id, node.jid),
                  conversation, node)
         ELSE IF Truthy(node.from)
         THEN group_message(
                  contact_from_jid(
                      [g EXCEPT !.conversations =
                           set_column(@, conversation, "is_group_conversation", TRUE)],
                      account_id, node.from),
                  conversation, node)
         ELSE import_node(
                  [g EXCEPT !.conversations =
                       set_column(@, conversation, "is_group_conversation", TRUE)],
                  conversation, node, <<>>)
    ELSE IF Row(g.conversations, conversation).is_group_conversation /\ Truthy(node.jid)
    THEN private_message(contact_from_jid(g, account_id, node.jid),
                         account_id, conversation, node)
    ELSE private_message(contact_from_jid(g, account_id, node.from),
                         account_id, conversation, node)

\* parse_xml: the message nodes of the fragment in order; an exception ends it.
RECURSIVE parse_xml(_, _, _, _)
parse_xml(g, account_id, conversation, nodes) ==
    IF nodes = <<>> \/ g.raised # None THEN g
    ELSE parse_xml(message_node(g, account_id, conversation, Head(nodes)),
                   account_id, conversation, Tail(nodes))

\* As delete_messages, the messages of every conversation being deleted.
delete_messages_of_all(g, conversation) ==
    [g EXCEPT !.messages = {},
              !.conversations = set_column(@, conversation, "import_complete", FALSE)]

\* g with what it holds written to its log.
logged(g, kind) ==
    [g EXCEPT !.log = Append(@, [kind |-> kind, contacts |-> g.contacts,
                                 email_addresses |-> g.email_addresses,
                                 telephone_numbers |-> g.telephone_numbers,
                                 conversations |-> g.conversations,
                                 messages |-> g.messages])]

\* Conversation.delete_messages; the deletes reach the database with the
\* flush that the first query of parse_xml brings.
delete_messages(g, conversation) ==
    [g EXCEPT !.messages = {m \in @ : m.conversation # conversation},
              !.conversations = set_column(@, conversation, "import_complete", FALSE)]

\* parse_multipart_email once parse_xml has returned g.
complete_import(g, conversation) ==
    IF g.raised # None THEN g
    ELSE [g EXCEPT !.conversations = set_column(@, conversation, "import_complete", TRUE)]

\* parse_multipart_email once get_or_create_conversation has returned got.
reimport(g, account_id, email, got) ==
    IF got.raised # None THEN [g EXCEPT !.raised = got.raised]
    ELSE complete_import(
             parse_xml(
                 logged(delete_messages(
                            logged([g EXCEPT !.conversations = got.conversations,
                                             !.stack = got.stack],
                                   "found"),
                            got.obj),
                        "deleted"),
                 account_id, got.obj, email.nodes),
             got.obj)

parse_multipart_email(g, account_id, email) ==
    reimport(g, account_id, email,
             get_or_create_conversation(g.conversations, g.stack, account_id,
                                        [int |-> email.uid],
                                        [last_modified |-> email.timestamp]))


\* email.utils.parseaddr on the From: and To: headers of the model.
parseaddr(value) ==
    CASE value = "Alice Smith <a>" -> [name |-> "Alice Smith", email_address |-> "a"]
      [] value = "Alice <c>" -> [name |-> "Alice", email_address |-> "c"]
      [] value = "b" -> [name |-> "", email_address |-> "b"]
      [] value = "" -> [name |-> "", email_address |-> ""]

\* contact_from_header: [contact, g].
contact_from_header(g, account_id, value) ==
    LET got == get_or_create_contact(contact_world(g), account_id,
                   [full_name |-> parseaddr(value).name,
                    email_address |-> parseaddr(value).email_address])
    IN  IF g.raised # None THEN [contact |-> NoRow, g |-> g]
        ELSE IF ~Truthy(parseaddr(value).email_address)
        THEN [contact |-> NoRow, g |-> [g EXCEPT !.raised = Exception]]
        ELSE [contact |-> got.contact, g |-> after_contact(g, got)]

\* As participants, the senders only.
participants_senders(msgs, conversation) ==
    {m.sender : m \in {o \in msgs : o.conversation = conversation}} \ {NoRow}

\* Conversation.participants: the senders and the recipients of its messages
\* (the joins leave out a NULL sender or recipient).
participants(msgs, conversation) ==
    ({m.sender : m \in {o \in msgs : o.conversation = conversation}}
        \cup {m.recipient : m \in {o \in msgs : o.conversation = conversation}}) \ {NoRow}

\* find_conversation(*participants): [conversation, conversation_map].  The
\* cache answers first; otherwise the conversations of the account without an
\* external id are searched, in the order of their ids, for one with exactly
\* these participants.
find_conversation(g, account_id, required_participants) ==
    LET same == {c \in g.conversations :
                    /\ c.account = account_id
                    /\ ~Truthy(c.external_id)
                    /\ participants(g.messages, c.id) = required_participants}
        first == CHOOSE c \in same : \A o \in same : c.id <= o.id
    IN  IF required_participants \in DOMAIN g.conversation_map
        THEN [conversation |-> g.conversation_map[required_participants],
              conversation_map |-> g.conversation_map]
        ELSE IF same = {}
        THEN [conversation |-> NoRow, conversation_map |-> g.conversation_map]
        ELSE [conversation |-> first.id,
              conversation_map |-> (required_participants :> first.id) @@ g.conversation_map]

\* html_to_text on the bodies of the model.
html_to_text(html) == IF html = "<b>hi</b>" THEN "hi" ELSE html

\* parse_singlepart_email from "if not conversation:" on: a conversation
\* without external id is added when none was found, then the message is
\* imported into it.
import_singlepart(g, account_id, email, sender, recipient, found) ==
    LET new == ("id" :> NextId(g.conversations)) @@ ("account" :> account_id)
               @@ ("external_id" :> None) @@ ConversationDefaults
        conversation == IF found.conversation = NoRow THEN new.id ELSE found.conversation
        got == get_or_create_message(g.messages, g.stack, conversation,
                   [external_id |-> ToString(email.uid), html |-> email.html,
                    recipient |-> recipient, sender |-> sender,
                    text |-> html_to_text(email.html), timestamp |-> email.timestamp])
    IN  [g EXCEPT !.raised = got.raised,
                  !.conversations = IF found.conversation = NoRow THEN @ \cup {new} ELSE @,
                  !.conversation_map = found.conversation_map,
                  !.messages = got.messages,
                  !.stack = got.stack,
                  !.log = Append(@, [kind |-> "singlepart", sender |-> sender,
                                     recipient |-> recipient, found |-> found.conversation,
                                     conversation |-> conversation, raised |-> got.raised,
                                     obj |-> got.obj, created |-> got.created])]

\* parse_singlepart_email once both contacts were looked up.
singlepart_contacts(sender, r, account_id, email) ==
    IF r.g.raised # None THEN r.g
    ELSE import_singlepart(r.g, account_id, email, sender, r.contact,
                           find_conversation(r.g, account_id, {sender, r.contact}))

singlepart_recipient(s, account_id, email) ==
    singlepart_contacts(s.contact, contact_from_header(s.g, account_id, email.to),
                        account_id, email)

parse_singlepart_email(g, account_id, email) ==
    singlepart_recipient(contact_from_header(g, account_id, email.from), account_id, email)


-----------------------------------------------------------------------------
(* SpecGtalk: runs of the Google Talk backend of one account against a      *)
(* chats folder that gains emails between the runs                          *)

\* A message node of an XML fragment.
Node(type, jid, from, to, ms, text) ==
    [type |-> type, jid |-> jid, from |-> from, to |-> to, ms |-> ms, text |-> text]

\* The emails of the chats folder by UID.  1 to 4 are single-part emails, 1,
\* 2 and 4 between the same two people; 7 and 8 are multi-part.  7 holds a
\* private message, a group message and a private message inside the group
\* chat whose senders are bogus private-chat addresses, and a node with an
\* empty body; the last node of 8 is a group message without jid and from.
Mailbox(uid) ==
    CASE uid = 1 -> [uid |-> 1, multipart |-> FALSE, from |-> "Alice Smith <a>", to |-> "b",
                     timestamp |-> 1, html |-> "<b>hi</b>"]
      [] uid = 2 -> [uid |-> 2, multipart |-> FALSE, from |-> "b", to |-> "Alice Smith <a>",
                     timestamp |-> 2, html |-> "hi"]
      [] uid = 3 -> [uid |-> 3, multipart |-> FALSE, from |-> "Alice <c>", to |-> "b",
                     timestamp |-> 3, html |-> "hi"]
      [] uid = 4 -> [uid |-> 4, multipart |-> FALSE, from |-> "Alice Smith <a>", to |-> "b",
                     timestamp |-> 4, html |-> "hi"]
      [] uid = 7 -> [uid |-> 7, multipart |-> TRUE, timestamp |-> 7,
                     nodes |-> << Node("chat", None, "a", "b/phone", 1, "hi "),
                                  Node("chat", None, "a", "b", 2, " "),
                                  Node("groupchat", BogusAddress \o "/Alice", None, None, 3, "hi"),
                                  Node("chat", BogusAddress \o "/Ali", "a", "b", 4, "hi") >>]
      [] uid = 8 -> [uid |-> 8, multipart |-> TRUE, timestamp |-> 8,
                     nodes |-> << Node("groupchat", None, BogusAddress \o "/Alice Smith",
                                       None, 5, "hi"),
                                  Node("groupchat", BogusAddress \o "/Zed", None, None, 6, "hi"),
                                  Node("groupchat", None, None, None, 7, "hi") >>]

Uids == {1, 2, 3, 4, 7, 8}

gtalk == "gtalk"

\* sorted(to_process)
RECURSIVE sorted(_)
sorted(S) ==
    IF S = {} THEN <<>>
    ELSE LET least == CHOOSE x \in S : \A y \in S : x <= y
         IN  <<least>> \o sorted(S \ {least})

\* int(external_id) of the UIDs that were stored as strings.
int(external_id) == CHOOSE uid \in Uids : ToString(uid) = external_id

\* find_uids_to_download: the UIDs on the server that are neither the external
\* id of a conversation nor of a message of the account.
find_uids_to_download(convs, msgs, account_id, remote_uids) ==
    remote_uids \
        ({int(c.external_id) : c \in {o \in convs : /\ o.account = account_id
                                                    /\ o.external_id # None}}
         \cup {int(m.external_id) :
                  m \in {o \in msgs : /\ o.external_id # None
                                      /\ \E c \in convs : /\ c.id = o.conversation
                                                         /\ c.account = account_id}})

\* As find_uids_to_import, without the filter on import_complete.
find_uids_to_import_all(convs, account_id) ==
    {int(c.external_id) : c \in {o \in convs : /\ o.account = account_id
                                               /\ o.external_id # None}}

\* find_uids_to_import: the conversations of the account with an external id
\* whose import is not complete.
find_uids_to_import(convs, account_id) ==
    {int(c.external_id) : c \in {o \in convs : /\ o.account = account_id
                                               /\ o.external_id # None
                                               /\ ~o.import_complete}}

\* The state a run works on, as the operators of the backend take it.
GtalkState(st) ==
    [raised |-> None, contacts |-> contacts, email_addresses |-> email_addresses,
     telephone_numbers |-> telephone_numbers, conversations |-> conversations,
     messages |-> messages, stack |-> st, cache |-> external_id_cache,
     conversation_map |-> run.conversation_map, log |-> <<>>]

\* An archive that an earlier release of the program filled from email 7 and
\* that was then upgraded: the import_complete column has its default.
LegacyArchive ==
    LET g == parse_multipart_email(
                 [raised |-> None, contacts |-> {}, email_addresses |-> {},
                  telephone_numbers |-> {}, conversations |-> {}, messages |-> {},
                  stack |-> NewStats, cache |-> <<>>, conversation_map |-> <<>>,
                  log |-> <<>>],
                 1, Mailbox(7))
    IN  [g EXCEPT !.conversations = set_column(@, 1, "import_complete", FALSE)]

GtalkIdle == [pc |-> "idle", queue |-> <<>>, conversation_map |-> <<>>, previous |-> "none"]

InitGtalk ==
    /\ accounts = {[id |-> 1, backend |-> gtalk, name |-> account_name]}
    /\ \E legacy \in BOOLEAN :
          /\ contacts = IF legacy THEN LegacyArchive.contacts ELSE {}
          /\ email_addresses = IF legacy THEN LegacyArchive.email_addresses ELSE {}
          /\ telephone_numbers = {}
          /\ conversations = IF legacy THEN LegacyArchive.conversations ELSE {}
          /\ messages = IF legacy THEN LegacyArchive.messages ELSE {}
          /\ remote = [uids |-> IF legacy THEN {7} ELSE {}]
    /\ stack = NewStats
    /\ external_id_cache = <<>>
    /\ run = GtalkIdle
    /\ ret = [op |-> "none"]
    /\ disk = session

\* Between runs an email appears in the chats folder.
EmailArrives ==
    \E uid \in Uids \ remote.uids :
        /\ run.pc = "idle"
        /\ remote' = [remote EXCEPT !.uids = @ \cup {uid}]
        /\ UNCHANGED <<accounts, contacts, email_addresses, telephone_numbers,
                       conversations, messages, stack, external_id_cache, run, ret, disk>>

\* GoogleTalkBackend.synchronize up to the loop, in a new process: the emails
\* to download and to import are determined.
GtalkSynchronize ==
    \E acct \in {account(accounts, gtalk, account_name)} :
      \E to_process \in {find_uids_to_download(conversations, messages, acct.id, remote.uids)
                            \cup find_uids_to_import(conversations, acct.id)} :
        /\ run.pc = "idle"
        /\ to_process # {}
        /\ accounts' = acct.accounts
        /\ stack' = push(NewStats)
        /\ external_id_cache' = <<>>
        /\ run' = [run EXCEPT !.pc = "emails", !.queue = sorted(to_process),
                              !.conversation_map = <<>>]
        /\ ret' = [op |-> "none"]
        /\ UNCHANGED <<contacts, email_addresses, telephone_numbers, conversations,
                       messages, remote, disk>>

\* One round of the loop of synchronize: the email is parsed inside "with
\* self.stats" and the changes are committed.  An exception leaves the
\* program through DatabaseClient.__exit__.
ProcessEmail ==
    /\ run.pc = "emails"
    /\ run.queue # <<>>
    /\ \E email \in {Mailbox(Head(run.queue))},
          acct \in {account(accounts, gtalk, account_name)} :
       \E g \in {IF email.multipart
                 THEN parse_multipart_email(GtalkState(push(stack)), acct.id, email)
                 ELSE parse_singlepart_email(GtalkState(push(stack)), acct.id, email)} :
        /\ ret' = [op |-> "process_email", uid |-> email.uid, raised |-> g.raised,
                   log |-> g.log, session |-> session]
        /\ IF g.raised # None
           THEN /\ exit(g.raised)
                /\ stack' = NewStats
                /\ external_id_cache' = <<>>
                /\ run' = [GtalkIdle EXCEPT !.previous = "failed"]
           ELSE /\ accounts' = acct.accounts
                /\ contacts' = g.contacts
                /\ email_addresses' = g.email_addresses
                /\ telephone_numbers' = g.telephone_numbers
                /\ conversations' = g.conversations
                /\ messages' = g.messages
                /\ stack' = pop(g.stack)
                /\ external_id_cache' = g.cache
                /\ run' = [run EXCEPT !.queue = Tail(@),
                                      !.conversation_map = g.conversation_map]
                /\ commit_changes
        /\ UNCHANGED remote

\* The loop has ended: logout, and ChatArchive.synchronize commits.
GtalkFinish ==
    /\ run.pc = "emails"
    /\ run.queue = <<>>
    /\ exit(None)
    /\ stack' = pop(stack)
    /\ run' = [GtalkIdle EXCEPT !.previous = "ok"]
    /\ UNCHANGED <<external_id_cache, remote, ret>>

NextGtalk == EmailArrives \/ GtalkSynchronize \/ ProcessEmail \/ GtalkFinish

SpecGtalk == InitGtalk /\ [][NextGtalk]_vars


\* The contacts that every keyword matches, in a name or an email address.
Matches(cs, keywords) ==
    {c \in cs : \A i \in DOMAIN keywords :
                    \/ like(c.first_name, keywords[i])
                    \/ like(c.last_name, keywords[i])
                    \/ \E e \in c.email_addresses : like(e, keywords[i])}

\* The lookup by keywords at position i of the log of the last email found no
\* contact or more than one.
Unresolved(i) ==
    /\ ret.log[i].kind = "keywords"
    /\ Cardinality(Matches(ret.log[i].contacts, ret.log[i].keywords)) # 1

\* C23: when the sender of a message node is looked up by keywords and no
\* contact or more than one contact matches them, the lookup returns None,
\* no exception is raised and get_or_create_message is called for the node
\* with sender None; unless a later node raises, the message is then stored
\* with no sender.
C23_AmbiguousSenderIsNoError ==
    ret.op = "process_email" =>
        \A i \in DOMAIN ret.log :
            Unresolved(i) =>
                /\ ret.log[i].contact = NoRow
                /\ i < Len(ret.log)
                /\ ret.log[i + 1].kind = "message"
                /\ ret.log[i + 1].who.sender = NoRow
                /\ ret.log[i + 1].raised = None
                /\ ret.raised = None =>
                      \E m \in messages : /\ m.id = ret.log[i + 1].obj
                                          /\ m.sender = NoRow
                                          /\ m.timestamp = ret.log[i + 1].ms

\* Email 7 was imported when two contacts were called Alice: the sender of
\* its group message matched both and the message is stored without sender.
C23_Witness ==
    /\ ret.op = "process_email"
    /\ ret.raised = None
    /\ \E i \in DOMAIN ret.log :
          /\ Unresolved(i)
          /\ Cardinality(Matches(ret.log[i].contacts, ret.log[i].keywords)) = 2
          /\ ret.log[i + 1].created
          /\ \E m \in messages : m.id = ret.log[i + 1].obj /\ m.sender = NoRow


\* The primary keys of a table.
Ids(table) == {r.id : r \in table}

\* The stored conversation of a multi-part email.
ConversationOf(convs, uid) ==
    CHOOSE c \in convs : c.account = 1 /\ c.external_id = ToString(uid)

\* C24: no row that is on disk ever leaves the disk, except messages of the
\* conversation of a multi-part email in the commit that follows its import.
\* In that import delete_messages removes exactly the messages of this
\* conversation and clears its import_complete; the messages of the other
\* conversations and the other tables are as get_or_create_conversation left
\* them.  When the import has ended without an exception the conversation is
\* complete and each of its messages stems from a different node of the email.
C24_OnlyInvalidationDeletes ==
    /\ [][/\ \A t \in {"accounts", "contacts", "email_addresses", "telephone_numbers",
                       "conversations"} : Ids(disk[t]) \subseteq Ids(disk'[t])
          /\ \A m \in disk.messages :
                m.id \notin Ids(disk'.messages) =>
                   /\ ret'.op = "process_email"
                   /\ ret' # ret
                   /\ Mailbox(ret'.uid).multipart
                   /\ m.conversation = ConversationOf(disk.conversations, ret'.uid).id]_vars
    /\ []((ret.op = "process_email" /\ Mailbox(ret.uid).multipart) =>
            LET before == ret.log[1]
                after == ret.log[2]
                c == ConversationOf(before.conversations, ret.uid)
            IN  /\ before.kind = "found"
                /\ after.kind = "deleted"
                /\ before.messages = ret.session.messages
                /\ after.messages = {m \in before.messages : m.conversation # c.id}
                /\ after.conversations =
                      (before.conversations \ {c}) \cup {[c EXCEPT !.import_complete = FALSE]}
                /\ after.contacts = before.contacts
                /\ after.email_addresses = before.email_addresses
                /\ after.telephone_numbers = before.telephone_numbers
                /\ ret.raised = None =>
                      /\ ConversationOf(conversations, ret.uid).import_complete
                      /\ \A m, o \in messages :
                            (/\ m.conversation = c.id
                             /\ o.conversation = c.id
                             /\ m.timestamp = o.timestamp) => m = o
                      /\ Cardinality({m \in messages : m.conversation = c.id})
                            = Cardinality({i \in DOMAIN ret.log :
                                              ret.log[i].kind = "message"}))

\* The conversation of email 7, stored with three messages and not complete,
\* was imported again: its old messages are gone, it has three messages and
\* is complete.
C24_Witness ==
    /\ ret.op = "process_email"
    /\ ret.uid = 7
    /\ ret.raised = None
    /\ \E c \in ret.session.conversations :
          /\ c.external_id = "7"
          /\ ~c.import_complete
          /\ Cardinality({m \in ret.session.messages : m.conversation = c.id}) = 3
          /\ Cardinality({m \in ret.log[2].messages : m.conversation = c.id}) = 0
          /\ Cardinality({m \in messages : m.conversation = c.id}) = 3
          /\ ConversationOf(conversations, 7).import_complete


\* The contacts that sent or received a message of the conversation.
People(msgs, conversation) ==
    {p \in Ids(contacts) : \E m \in msgs : /\ m.conversation = conversation
                                           /\ p \in {m.sender, m.recipient}}

\* The conversations of the account without external id.
Unnamed(convs) == {c \in convs : c.account = 1 /\ c.external_id = None}

\* C25: no two conversations of the account without external id have the same
\* set of participants; and when a single-part email is imported whose sender
\* and recipient are exactly the participants of such a conversation, the
\* message is stored in that conversation and no conversation is added.
C25_OneConversationPerParticipantSet ==
    /\ \A c, d \in Unnamed(conversations) :
          People(messages, c.id) = People(messages, d.id) => c = d
    /\ (/\ ret.op = "process_email"
        /\ ~Mailbox(ret.uid).multipart
        /\ ret.raised = None) =>
          LET done == ret.log[Len(ret.log)]
          IN  \A c \in Unnamed(ret.session.conversations) :
                 People(ret.session.messages, c.id) = {done.sender, done.recipient} =>
                    /\ done.conversation = c.id
                    /\ Row(messages, done.obj).conversation = c.id
                    /\ Ids(conversations) = Ids(ret.session.conversations)

\* Emails 1, 2 and 4 were imported in one run: the message of email 4 went
\* into the conversation that email 1 had created, which the cache of
\* find_conversation held since email 2.
C25_Witness ==
    /\ ret.op = "process_email"
    /\ ret.uid = 4
    /\ ret.raised = None
    /\ DOMAIN run.conversation_map # {}
    /\ ret.log[Len(ret.log)].created
    /\ Cardinality(Unnamed(conversations)) = 1
    /\ Cardinality({m \in messages :
                       m.conversation = ret.log[Len(ret.log)].conversation}) = 3

-----------------------------------------------------------------------------
(* C26: get_or_create_object as get_or_create_message calls it              *)

\* The required and the optional dictionary that get_or_create_message hands
\* to get_or_create_object for the call recorded in r.
RequiredOf(r) ==
    IF Truthy(Get(r.attributes, "external_id"))
    THEN [conversation |-> r.conversation, external_id |-> r.attributes.external_id]
    ELSE [conversation |-> r.conversation, sender |-> r.attributes.sender,
          timestamp |-> r.attributes.timestamp]

OptionalOf(r) == pre_process_text(r.attributes)

StoredMatches(table, required) ==
    {m \in table : \A f \in DOMAIN required : m[f] = required[f]}

\* C26: get_or_create_object returns created = true exactly when no stored
\* object equals the request on every required field; the created object
\* carries the optional attributes overridden by the required ones and is in
\* the table afterwards; when a match exists it is returned with created =
\* false and no stored row is changed.
C26_GetOrCreateObject ==
    [][(ret'.op = "get_or_create_message"
        /\ (Truthy(Get(ret'.attributes, "external_id")) \/ "sender" \in DOMAIN ret'.attributes))
       => LET required == RequiredOf(ret')
              found == StoredMatches(messages, required)
          IN  /\ ret'.raised = None
              /\ ret'.created <=> (found = {})
              /\ found # {} => /\ ret'.obj \in {m.id : m \in found}
                               /\ messages' = messages
              /\ found = {} =>
                    \E m \in messages' \ messages :
                        /\ m.id = ret'.obj
                        /\ messages' = messages \cup {m}
                        /\ \A f \in DOMAIN required : m[f] = required[f]
                        /\ \A f \in DOMAIN OptionalOf(ret') \ DOMAIN required :
                               m[f] = OptionalOf(ret')[f]]_vars

\* The same for the calls whose lookup matches at most one stored row.
C26_SingleMatch ==
    [][(ret'.op = "get_or_create_message"
        /\ (Truthy(Get(ret'.attributes, "external_id")) \/ "sender" \in DOMAIN ret'.attributes)
        /\ Cardinality(StoredMatches(messages, RequiredOf(ret'))) <= 1)
       => LET required == RequiredOf(ret')
              found == StoredMatches(messages, required)
          IN  /\ ret'.raised = None
              /\ ret'.created <=> (found = {})
              /\ found # {} => /\ ret'.obj \in {m.id : m \in found}
                               /\ messages' = messages
              /\ found = {} =>
                    \E m \in messages' \ messages :
                        /\ m.id = ret'.obj
                        /\ messages' = messages \cup {m}
                        /\ \A f \in DOMAIN required : m[f] = required[f]
                        /\ \A f \in DOMAIN OptionalOf(ret') \ DOMAIN required :
                               m[f] = OptionalOf(ret')[f]]_vars

-----------------------------------------------------------------------------
(* SpecCache: get_or_create_contact and find_contact_by_external_id calls   *)
(* of one backend run of account 1, in any order                            *)

ExternalIds == {"u1", "u2", "u3"}

FindContactByExternalId ==
    \E external_id \in ExternalIds :
        \E got \in {find_contact_by_external_id(contacts, external_id_cache, 1, external_id)} :
            /\ ret.op = "none"
            /\ external_id_cache' = got.cache
            /\ ret' = [op |-> "find_contact_by_external_id", account |-> 1,
                       external_id |-> external_id, raised |-> got.raised,
                       contact |-> got.contact]
            /\ UNCHANGED <<accounts, contacts, email_addresses, telephone_numbers,
                           conversations, messages, stack, remote, run, disk>>

NextCache == GetOrCreateContact \/ FindContactByExternalId \/ Return

SpecCache == InitContact /\ [][NextCache]_vars

\* C27: the external-id cache is transparent: in every state of a run, for
\* every external id, find_contact_by_external_id answers (contact, absence
\* or error) what the query of the contacts table by (account, external_id)
\* answers; also for an id that was looked up before its contact was created
\* or got the id filled in.
C27_CacheIsTransparent ==
    \A external_id \in ExternalIds :
        LET cached == find_contact_by_external_id(contacts, external_id_cache, 1, external_id)
            stored == {c \in contacts : c.account = 1 /\ c.external_id = external_id}
        IN  CASE stored = {} -> cached.raised = None /\ cached.contact = NoRow
              [] Cardinality(stored) = 1 ->
                     cached.raised = None /\ cached.contact \in {c.id : c \in stored}
              [] OTHER -> cached.raised = MultipleResultsFound

\* An id was looked up while no contact had it (the cache holds None for it),
\* a contact found by its email address got the id filled in afterwards, and
\* the lookup returns that contact.
C27_Witness ==
    /\ ret.op = "find_contact_by_external_id"
    /\ ret.external_id = "u2"
    /\ ret.contact # NoRow
    /\ \E c \in contacts : c.id = ret.contact /\ c.account = 1 /\ c.external_id = "u2"
    /\ \E c \in contacts : c.account = 1 /\ c.external_id = "u1"
    /\ external_id_cache["u2"] = ret.contact
    /\ "u3" \in DOMAIN external_id_cache /\ external_id_cache["u3"] = NoRow

-----------------------------------------------------------------------------
(* SpecBackoff: download_message_batch under every configured retry_count   *)

\* The values of the retry_count option the model draws from.
MaxRetryCount == 8
RetryCounts == 0..MaxRetryCount

DownloadWithRetryCount ==
    \E i \in 1..Len(remote.conversations), failures \in 0..MaxFailures,
       error \in {None, Exception}, retry \in RetryCounts :
        \E got \in {request_loop_for(retry, remote.conversations[i], None, failures, error,
                                     1, InitialBackOff, <<>>)} :
            /\ ret.op = "none"
            /\ ret' = [op |-> "download_with_retry_count", retry_count |-> retry,
                       conversation |-> i, failures |-> failures, error |-> error,
                       raised |-> got.raised, none |-> got.none, batch |-> got.batch,
                       calls |-> got.calls, slept |-> got.slept]
            /\ UNCHANGED <<accounts, contacts, email_addresses, telephone_numbers,
                           conversations, messages, stack, external_id_cache,
                           remote, run, disk>>

NextBackoff == RemoteActivity \/ DownloadWithRetryCount \/ Return

SpecBackoff == InitRetry /\ [][NextBackoff]_vars

\* 2^n
RECURSIVE Pow2(_)
Pow2(n) == IF n = 0 THEN 1 ELSE 2 * Pow2(n - 1)

\* C29: for every configured retry_count, the k-th sleep of a call lasts
\* min(0.5 * 2^(k-1), 10) seconds (in half seconds: min(2^(k-1), 20)), so no
\* sleep exceeds 10 seconds, and the call makes at most retry_count requests.
C29_BackoffSchedule ==
    ret.op = "download_with_retry_count" =>
        /\ \A k \in 1..Len(ret.slept) :
              /\ ret.slept[k] = Min(InitialBackOff * Pow2(k - 1), MaxBackOff)
              /\ ret.slept[k] <= MaxBackOff
        /\ ret.calls <= ret.retry_count

\* A call with retry_count 8 whose first six requests failed: it slept 0.5,
\* 1, 2, 4, 8 and 10 seconds and the seventh request answered.
C29_Witness ==
    /\ ret.op = "download_with_retry_count"
    /\ ret.retry_count = 8
    /\ ret.failures = 6
    /\ ret.raised = None
    /\ ret.none = FALSE
    /\ ret.calls = 7
    /\ ret.slept = <<1, 2, 4, 8, 16, 20>>

-----------------------------------------------------------------------------
(* C30: email addresses and telephone numbers under get_or_create_contact   *)

LinkFields == {"email_addresses", "telephone_numbers"}

\* What the resolved contact of the call recorded in r was linked to before
\* the call: nothing when the call created it.
LinkedBefore(cs, r, field) ==
    IF r.created THEN {} ELSE Row(cs, r.contact)[field]

\* The values the call recorded in r appended to the relationship field.
Appended(r, field) ==
    {r.appended[k][2] : k \in {j \in 1..Len(r.appended) : r.appended[j][1] = field}}

\* C30: after any sequence of get_or_create_contact calls no two rows of
\* email_addresses and no two rows of telephone_numbers hold the same value;
\* a call appends a value to the resolved contact at most once and only when
\* the contact was not linked to it, so the contact's links grow by exactly
\* the values appended; and a call that supplies nothing but linked values
\* and no new attribute does not count as a change.
C30_UniqueValuesIdempotentLinks ==
    /\ [](\A r1, r2 \in email_addresses : r1.value = r2.value => r1 = r2)
    /\ [](\A r1, r2 \in telephone_numbers : r1.value = r2.value => r1 = r2)
    /\ [][(ret'.op = "get_or_create_contact" /\ ret'.raised = None) =>
            LET after == Row(contacts', ret'.contact)
            IN  /\ \A j, k \in 1..Len(ret'.appended) :
                       ret'.appended[j] = ret'.appended[k] => j = k
                /\ \A f \in LinkFields :
                       /\ Appended(ret', f) \cap LinkedBefore(contacts, ret', f) = {}
                       /\ after[f] = LinkedBefore(contacts, ret', f) \cup Appended(ret', f)
                       /\ Appended(ret', f) \subseteq Range(SuppliedList(ret'.attributes, f))
                /\ (/\ ~ret'.created
                    /\ \A f \in LinkFields :
                           Range(SuppliedList(ret'.attributes, f))
                               \subseteq LinkedBefore(contacts, ret', f)
                    /\ \A f \in ScalarFields :
                           after[f] = Row(contacts, ret'.contact)[f])
                   => /\ ret'.appended = <<>>
                      /\ scope(stack').contacts_changed = scope(stack).contacts_changed]_vars

\* The call supplied the email address "a" twice to a stored contact that was
\* linked to "a" already, next to the contact of the other account that is
\* linked to the one row holding "a": nothing was appended.
C30_Witness ==
    /\ ret.op = "get_or_create_contact"
    /\ ret.attributes = [email_addresses |-> <<"a">>, email_address |-> "a"]
    /\ ret.raised = None
    /\ ~ret.created
    /\ ret.appended = <<>>
    /\ "a" \in Row(contacts, ret.contact).email_addresses
    /\ Row(contacts, ret.contact).account = 1
    /\ Cardinality({r \in email_addresses : r.value = "a"}) = 1
    /\ \E r \in telephone_numbers : r.value = "p"

\* The same call on an archive in which account 1 has no contact yet: the
\* contact is created and "a" is appended to it once.
C30_AppendedOnce ==
    (/\ ret.op = "get_or_create_contact"
     /\ ret.attributes = [email_addresses |-> <<"a">>, email_address |-> "a"]
     /\ ret.created)
        => ret.appended = << <<"email_addresses", "a">> >>

-----------------------------------------------------------------------------
(* C31: a message descriptor without external id and without sender         *)

\* C31: get_or_create_message accepts a descriptor that supplies neither an
\* external id nor a sender: no error is raised and the conversation holds
\* the message with no sender, under the key (no sender, timestamp).
C31_UnknownSenderAccepted ==
    (/\ ret.op = "get_or_create_message"
     /\ ~Truthy(Get(ret.attributes, "external_id"))
     /\ "sender" \notin DOMAIN ret.attributes)
        => /\ ret.raised = None
           /\ \E m \in messages :
                 /\ m.id = ret.obj
                 /\ m.conversation = ret.conversation
                 /\ m.sender = NoRow
                 /\ m.timestamp = ret.attributes.timestamp

-----------------------------------------------------------------------------
(* Telegram backend *)

telegram == "telegram"
AttributeError == "AttributeError"

\* "if self.stats.messages_added % 100 == 0"
CommitInterval == 100

RECURSIVE reversed(_)
reversed(s) == IF s = <<>> THEN <<>> ELSE Append(reversed(Tail(s)), Head(s))

\* client.iter_messages(dialog, min_id, max_id): the messages of the dialog
\* with min_id < id, and id < max_id unless max_id is 0, newest first.
iter_messages(dialog, min_id, max_id) ==
    reversed(SelectSeq(dialog.messages,
                       LAMBDA m : m.id > min_id /\ (max_id = 0 \/ m.id < max_id)))

\* self.archive.commit_changes() on the state t of a Telegram run, which is
\* [raised, accounts, contacts, email_addresses, telephone_numbers,
\* conversations, messages, stack, cache, disk].
telegram_commit(t) ==
    [t EXCEPT !.disk = [accounts |-> t.accounts, contacts |-> t.contacts,
                        email_addresses |-> t.email_addresses,
                        telephone_numbers |-> t.telephone_numbers,
                        conversations |-> t.conversations, messages |-> t.messages]]

\* sender_to_contact(user): t after the call and the contact it returned.
sender_to_contact(t, account_id, user) ==
    LET got == get_or_create_contact(
                   [contacts |-> t.contacts, email_addresses |-> t.email_addresses,
                    telephone_numbers |-> t.telephone_numbers, stack |-> t.stack,
                    cache |-> t.cache],
                   account_id,
                   [external_id |-> user.id, first_name |-> user.first_name,
                    last_name |-> user.last_name, telephone_number |-> user.phone])
    IN  [contact |-> got.contact,
         t |-> [t EXCEPT !.raised = got.raised,
                         !.contacts = got.w.contacts,
                         !.email_addresses = got.w.email_addresses,
                         !.telephone_numbers = got.w.telephone_numbers,
                         !.stack = got.w.stack,
                         !.cache = got.w.cache]]

\* The body of the loop of download_messages once the sender s was looked up:
\* get_or_create_message and the commit "every now and then".
store_message(s, conversation, message) ==
    LET got == get_or_create_message(s.t.messages, s.t.stack, conversation,
                   [external_id |-> ToString(message.id), html |-> html_escape(message.message),
                    recipient |-> NoRow, sender |-> s.contact, text |-> message.message,
                    timestamp |-> message.date])
        stored == [s.t EXCEPT !.raised = got.raised, !.messages = got.messages,
                              !.stack = got.stack]
    IN  IF s.t.raised # None THEN s.t
        ELSE IF got.raised # None THEN stored
        ELSE IF scope(got.stack).messages_added % CommitInterval = 0
        THEN telegram_commit(stored)
        ELSE stored

\* The body of the loop of download_messages: service messages are ignored.
download_message(t, account_id, conversation, message) ==
    IF ~Truthy(message.message) THEN t
    ELSE store_message(sender_to_contact(t, account_id, message.sender), conversation, message)

\* download_messages on the messages that iter_messages yields; the iterator
\* raises after it has yielded `fail` messages (never when fail is -1).
RECURSIVE download_messages(_, _, _, _, _)
download_messages(t, account_id, conversation, yielded, fail) ==
    IF t.raised # None THEN t
    ELSE IF fail = 0 THEN [t EXCEPT !.raised = Exception]
    ELSE IF yielded = <<>> THEN t
    ELSE download_messages(download_message(t, account_id, conversation, Head(yielded)),
                           account_id, conversation, Tail(yielded),
                           IF fail > 0 THEN fail - 1 ELSE fail)

\* The end of perform_initial_sync, once download_messages has returned t.
finish_initial_sync(t, conversation) ==
    IF t.raised # None THEN t
    ELSE telegram_commit(
             [t EXCEPT !.conversations =
                 {IF c.id = conversation THEN [c EXCEPT !.import_complete = TRUE] ELSE c :
                     c \in t.conversations}])

\* TelegramBackend.perform_initial_sync(dialog, conversation_in_db)
telegram_initial_sync(t, account_id, dialog, conversation, fail) ==
    LET oldest == oldest_message(t.messages, conversation)
        max_id == IF oldest # NoRow THEN int(Row(t.messages, oldest).external_id) ELSE 0
        entity == IF dialog.is_user THEN sender_to_contact(t, account_id, dialog.entity).t
                  ELSE t
    IN  finish_initial_sync(
            download_messages(entity, account_id, conversation,
                              iter_messages(dialog, 0, max_id), fail),
            conversation)

\* update_conversation(dialog, conversation_in_db), followed by
\* "conversation_in_db.last_modified = dialog.date" in connect_then_sync.
update_conversation(t, account_id, dialog, conversation, fail) ==
    LET newest == newest_message(t.messages, conversation)
        min_id == int(Row(t.messages, newest).external_id)
        after == download_messages(t, account_id, conversation,
                                   iter_messages(dialog, min_id, 0), fail)
    IN  IF newest = NoRow THEN [t EXCEPT !.raised = AttributeError]
        ELSE IF after.raised # None THEN after
        ELSE [after EXCEPT !.conversations =
                 {IF c.id = conversation THEN [c EXCEPT !.last_modified = dialog.date] ELSE c :
                     c \in after.conversations}]

\* is_duplicate_dialog: a group dialog whose name is the name of a stored
\* conversation while another Telegram account is in the archive.
dialog_to_ignore(t, dialog) ==
    /\ ~dialog.is_user
    /\ \E a \in t.accounts : a.backend = telegram /\ a.name # account_name
    /\ \E c \in t.conversations : c.name = dialog.name

\* The body of the loop of connect_then_sync once get_or_create_conversation
\* has returned got.
sync_conversation(t, account_id, dialog, got, fail) ==
    LET t1 == [t EXCEPT !.raised = got.raised, !.conversations = got.conversations,
                        !.stack = got.stack]
        conversation_in_db == Row(got.conversations, got.obj)
    IN  IF got.raised # None THEN t1
        ELSE IF ~conversation_in_db.import_complete
        THEN telegram_initial_sync(t1, account_id, dialog, got.obj, fail)
        ELSE IF dialog.date > conversation_in_db.last_modified
        THEN update_conversation(t1, account_id, dialog, got.obj, fail)
        ELSE t1

\* The body of the loop of connect_then_sync for one dialog.
sync_dialog(t, account_id, dialog, fail) ==
    IF dialog_to_ignore(t, dialog) THEN t
    ELSE sync_conversation(t, account_id, dialog,
             get_or_create_conversation(t.conversations, t.stack, account_id,
                 [int |-> dialog.id],
                 [is_group_conversation |-> ~dialog.is_user, last_modified |-> dialog.date,
                  name |-> IF dialog.is_user THEN None ELSE dialog.name]),
             fail)

-----------------------------------------------------------------------------
(* SpecTelegram: runs of the Telegram backend against two dialogs, one of    *)
(* which gains messages between the runs                                    *)

MaxDialogMessages == 3

TelegramUser(id, first_name) ==
    [id |-> id, first_name |-> first_name, last_name |-> None, phone |-> None]

TelegramRemote ==
    [dialogs |->
        << [id |-> 11, name |-> "Alice", is_user |-> TRUE, date |-> 1,
            entity |-> TelegramUser("u1", "Alice"),
            messages |-> << [id |-> 1, date |-> 1, message |-> "hi",
                             sender |-> TelegramUser("u1", "Alice")] >>],
           [id |-> 12, name |-> "Bob", is_user |-> TRUE, date |-> 1,
            entity |-> TelegramUser("u2", "Bob"),
            messages |-> << [id |-> 1, date |-> 1, message |-> "hi",
                             sender |-> TelegramUser("u2", "Bob")] >>] >>]

InitTelegram ==
    /\ accounts = {}
    /\ contacts = {}
    /\ email_addresses = {}
    /\ telephone_numbers = {}
    /\ conversations = {}
    /\ messages = {}
    /\ stack = NewStats
    /\ external_id_cache = <<>>
    /\ remote = TelegramRemote
    /\ run = NoRun
    /\ ret = [op |-> "none"]
    /\ disk = session

\* Between runs a message, or a service message, arrives in a dialog.
TelegramActivity ==
    \E i \in 1..Len(remote.dialogs), text \in {"hi", None} :
        \E d \in {remote.dialogs[i]} :
            /\ run.pc = "idle"
            /\ Len(d.messages) < MaxDialogMessages
            /\ remote' = [remote EXCEPT !.dialogs[i] =
                             [d EXCEPT !.date = Len(d.messages) + 1,
                                       !.messages = Append(@, [id |-> Len(d.messages) + 1,
                                                               date |-> Len(d.messages) + 1,
                                                               message |-> text,
                                                               sender |-> d.entity])]]
            /\ ret' = [op |-> "none"]
            /\ UNCHANGED <<accounts, contacts, email_addresses, telephone_numbers,
                           conversations, messages, stack, external_id_cache, run, disk>>

\* ChatArchive.synchronize enters "with self.import_stats" in a new process
\* and the backend connects.
TelegramSynchronize ==
    /\ run.pc = "idle"
    /\ stack' = push(NewStats)
    /\ external_id_cache' = <<>>
    /\ run' = [run EXCEPT !.pc = "dialogs", !.index = 1, !.raised = None]
    /\ ret' = [op |-> "none"]
    /\ UNCHANGED <<accounts, contacts, email_addresses, telephone_numbers,
                   conversations, messages, remote, disk>>

\* One round of "async for dialog in self.client.iter_dialogs()".  An
\* exception leaves connect_then_sync, synchronize and "with
\* self.import_stats", and the program ends without a commit.
TelegramDialog ==
    /\ run.pc = "dialogs"
    /\ run.index <= Len(remote.dialogs)
    /\ \E fail \in -1..(MaxDialogMessages - 1),
          acct \in {account(accounts, telegram, account_name)} :
       \E t \in {sync_dialog([raised |-> None, accounts |-> acct.accounts,
                              contacts |-> contacts, email_addresses |-> email_addresses,
                              telephone_numbers |-> telephone_numbers,
                              conversations |-> conversations, messages |-> messages,
                              stack |-> stack, cache |-> external_id_cache, disk |-> disk],
                             acct.id, remote.dialogs[run.index], fail)} :
        /\ ret' = [op |-> "telegram_dialog", dialog |-> run.index, fail |-> fail,
                   raised |-> t.raised, account |-> acct.id, session |-> session]
        /\ disk' = t.disk
        /\ IF t.raised = None
           THEN /\ accounts' = t.accounts
                /\ contacts' = t.contacts
                /\ email_addresses' = t.email_addresses
                /\ telephone_numbers' = t.telephone_numbers
                /\ conversations' = t.conversations
                /\ messages' = t.messages
                /\ stack' = t.stack
                /\ external_id_cache' = t.cache
                /\ run' = [run EXCEPT !.index = @ + 1]
           ELSE /\ accounts' = t.disk.accounts
                /\ contacts' = t.disk.contacts
                /\ email_addresses' = t.disk.email_addresses
                /\ telephone_numbers' = t.disk.telephone_numbers
                /\ conversations' = t.disk.conversations
                /\ messages' = t.disk.messages
                /\ stack' = pop(t.stack)
                /\ external_id_cache' = <<>>
                /\ run' = [NoRun EXCEPT !.previous = "failed", !.raised = t.raised]
        /\ UNCHANGED remote

\* The dialogs are exhausted: the statistics scope is left and
\* ChatArchive.synchronize commits.
TelegramFinish ==
    /\ run.pc = "dialogs"
    /\ run.index > Len(remote.dialogs)
    /\ exit(None)
    /\ stack' = pop(stack)
    /\ run' = [NoRun EXCEPT !.previous = "ok"]
    /\ ret' = [op |-> "none"]
    /\ UNCHANGED <<external_id_cache, remote>>

NextTelegram == TelegramActivity \/ TelegramSynchronize \/ TelegramDialog \/ TelegramFinish

SpecTelegram == InitTelegram /\ [][NextTelegram]_vars

\* The conversation of a dialog in a table of conversations.
DialogConversation(convs, acct, dialog) ==
    {c \in convs : c.account = acct /\ c.external_id = ToString(dialog.id)}

\* C32: an exception raised while the messages of a dialog are downloaded is
\* caught at the conversation: the conversation of the dialog is stored with
\* import_errors set, and the run goes on with the dialogs that follow.
C32_TelegramFailureIsContained ==
    (ret.op = "telegram_dialog" /\ ret.raised # None) =>
        /\ \E c \in DialogConversation(conversations, ret.account, remote.dialogs[ret.dialog]) :
              c.import_errors
        /\ run.pc = "dialogs"
        /\ run.index = ret.dialog + 1

-----------------------------------------------------------------------------
(* C33: the emails that a run of the Google Talk backend processes          *)

\* The UID is the external id of a conversation or of a message of the
\* Google Talk account.
StoredLocally(uid) ==
    \/ \E c \in conversations :
          /\ c.account \in {a.id : a \in {o \in accounts : o.backend = gtalk}}
          /\ c.external_id = ToString(uid)
    \/ \E m \in messages :
          /\ m.external_id = ToString(uid)
          /\ \E c \in conversations :
                /\ c.id = m.conversation
                /\ c.account \in {a.id : a \in {o \in accounts : o.backend = gtalk}}

\* The UID is the external id of a conversation whose import is not complete.
ImportIncomplete(uid) ==
    \E c \in conversations :
        /\ c.account \in {a.id : a \in {o \in accounts : o.backend = gtalk}}
        /\ c.external_id = ToString(uid)
        /\ ~c.import_complete

ToProcess ==
    {uid \in Uids : \/ uid \in remote.uids /\ ~StoredLocally(uid)
                    \/ ImportIncomplete(uid)}

\* C33: a run processes exactly the UIDs that are on the server and not
\* stored locally, or that belong to a stored conversation whose import is
\* not complete: these are the emails a run sets out to process, every email
\* it processes is one of them that is still in that condition, and a run
\* that ends normally has left none.  So a UID whose conversation is complete
\* or whose single message is stored is not processed again.
C33_ProcessedIffMissingOrIncomplete ==
    /\ [][(run.pc = "idle" /\ run'.pc = "emails") => Range(run'.queue) = ToProcess]_vars
    /\ [][(run.pc = "emails" /\ run.queue # <<>>) =>
            /\ ret'.op = "process_email"
            /\ ret'.uid = Head(run.queue)
            /\ ret'.uid \in ToProcess
            /\ ~(StoredLocally(ret'.uid) /\ ~ImportIncomplete(ret'.uid))]_vars
    /\ [][(run.pc = "emails" /\ run'.pc = "idle" /\ run'.previous = "ok")
            => ToProcess' = {}]_vars

\* A second run: the emails 1 and 7 are on the server, the message of 1 is
\* stored and the conversation of 7 is complete; the run processes only the
\* email that arrived since.
C33_Witness ==
    /\ run.pc = "emails"
    /\ run.queue = <<2>>
    /\ {1, 2, 7} \subseteq remote.uids
    /\ \E m \in messages : m.external_id = "1"
    /\ \E c \in conversations : c.external_id = "7" /\ c.import_complete

-----------------------------------------------------------------------------
(* C34: the cursor of the backward walk of download_all_messages            *)

\* The ChatMessageEvents of the batch that the round in progress requests.
BatchMessages ==
    LET batch == get_events(remote.conversations[run.index], run.event_id)
    IN  {batch[k] : k \in {j \in 1..Len(batch) : batch[j].chat}}

\* The conversation row of the remote conversation that the run is at.
RowOfRun ==
    CHOOSE c \in conversations : c.external_id = remote.conversations[run.index].id_

\* The messages of the batch that the archive does not hold yet.
BatchNew ==
    {e \in BatchMessages :
        ~\E m \in messages : m.conversation = RowOfRun.id /\ m.external_id = e.id_}

\* The round moved the cursor and the walk goes on.
CursorAdvances ==
    /\ run.pc = "messages"
    /\ run'.pc = "messages"
    /\ run'.index = run.index
    /\ run'.cursors = Append(run.cursors, run.event_id)

-----------------------------------------------------------------------------
(* C35: download_all_messages terminates                                    *)

\* The number of ChatMessageEvents of a remote conversation.
RemoteMessages(conversation) ==
    Cardinality({k \in 1..Len(conversation.events) : conversation.events[k].chat})

\* C35: download_all_messages terminates.  Every round of its loop either
\* stores a message of the remote conversation that was not stored before,
\* of which there are no more than the remote conversation has, or is the
\* last round of the walk; every round makes one batch request, and a walk
\* makes at most as many requests as the remote conversation has messages,
\* plus one.
C35_WalkTerminates ==
    [][run.pc = "messages" =>
            /\ (run'.pc = "messages" /\ run'.index = run.index) =>
                  \E e \in BatchMessages :
                      /\ ~\E m \in messages :
                            m.conversation = RowOfRun.id /\ m.external_id = e.id_
                      /\ \E m \in messages' :
                            m.conversation = RowOfRun.id /\ m.external_id = e.id_
                      /\ Cardinality({m \in messages' : m.conversation = RowOfRun.id})
                            <= RemoteMessages(remote.conversations[run.index])
            /\ Len(run'.cursors) = Len(run.cursors) + 1
            /\ Len(run'.cursors) <= RemoteMessages(remote.conversations[run.index]) + 1]_vars

\* A walk over a conversation with three messages has made its third request
\* and ended: the import is complete and all three messages are stored.
C35_Witness ==
    /\ run.pc = "conversations"
    /\ run.index = 2
    /\ Len(run.cursors) = 3
    /\ RemoteMessages(remote.conversations[1]) = 3
    /\ \E c \in conversations :
          /\ c.external_id = remote.conversations[1].id_
          /\ c.import_complete
          /\ Cardinality({m \in messages : m.conversation = c.id}) = 3

-----------------------------------------------------------------------------
(* C36: no gaps after an interrupted update                                 *)

\* The rows of the archive for a conversation of the service that are
\* complete, not flagged and as recent as the service says the conversation is.
UpToDateRows(conversation) ==
    {row \in conversations :
        /\ row.external_id = conversation.id_
        /\ row.import_complete
        /\ ~row.import_errors
        /\ row.last_modified = conversation.last_modified}

\* C36: when a conversation is complete, not flagged and its last_modified
\* is that of the service, every message of the service's conversation is
\* stored, also after a run was killed or interrupted in an update of the
\* conversation and a later run updated it again.  (The conversations looked
\* at hold chat messages only, so that no batch is without one.)
C36_NoGapsAfterInterruptedUpdate ==
    \A k \in 1..Len(remote.conversations) :
        \A row \in UpToDateRows(remote.conversations[k]) :
            (\A e \in Range(remote.conversations[k].events) : e.chat) =>
                \A e \in Range(remote.conversations[k].events) :
                    \E m \in messages :
                        m.conversation = row.id /\ m.external_id = e.id_

-----------------------------------------------------------------------------
(* C37: an email address belongs to one contact of an account               *)

\* C37: after any sequence of get_or_create_contact calls no two contacts of
\* one account are linked to the same email address, and no call fails
\* because the lookup by email address found more than one contact.
C37_EmailLinkedToOneContact ==
    /\ \A c, o \in contacts :
          (c.account = o.account /\ c.id # o.id) =>
              c.email_addresses \cap o.email_addresses = {}
    /\ ret.op = "get_or_create_contact" => ret.raised # MultipleResultsFound

-----------------------------------------------------------------------------
(* C38: a statistics scope is closed on every exit path                     *)

\* The sum of a counter over all scopes of the stack.
RECURSIVE TotalCount(_, _)
TotalCount(st, n) ==
    IF st = <<>> THEN 0
    ELSE st[Len(st)][n] + TotalCount(SubSeq(st, 1, Len(st) - 1), n)

\* The increments of a counter that a step of a run makes: a row that is
\* created, a conversation whose download raised, a conversation skipped for
\* its import_errors flag.
Increments(n) ==
    CASE n = "messages_added" -> Cardinality(messages') - Cardinality(messages)
      [] n = "conversations_added" -> Cardinality(conversations') - Cardinality(conversations)
      [] n = "contacts_added" -> Cardinality(contacts') - Cardinality(contacts)
      [] n = "failed_conversations" ->
             IF run'.index = run.index + 1 /\ run'.raised # None THEN 1 ELSE 0
      [] n = "skipped_conversations" ->
             IF /\ run.pc = "conversations"
                /\ run'.index = run.index + 1
                /\ run'.raised = None
                /\ \E c \in conversations' :
                      /\ c.external_id = remote.conversations[run.index].id_
                      /\ c.import_errors
                /\ ~run.force
             THEN 1 ELSE 0

CountedNames ==
    {"messages_added", "conversations_added", "contacts_added",
     "failed_conversations", "skipped_conversations"}

\* C38: the scope of a conversation download and the scope of a run are
\* closed however the block ends.  The stack is one scope deep between runs,
\* two in a run and three while a conversation is downloaded; when the
\* download of a conversation ends, with or without an exception, its scope
\* is gone, its counters are added to those of the run and the root scope is
\* untouched; every step of a run adds to the counters, over all scopes,
\* exactly the increments it makes; and when the run ends, the root scope
\* holds for each counter the total of the run.
C38_ScopesClosedOnEveryPath ==
    /\ [](Len(stack) = CASE run.pc = "idle" -> 1
                         [] run.pc = "messages" -> 3
                         [] OTHER -> 2)
    /\ [][(run.pc = "messages" /\ run'.pc # "messages") =>
            /\ Len(stack') = Len(stack) - 1
            /\ stack'[1] = stack[1]
            /\ \A n \in CounterNames \ CountedNames :
                  TotalCount(stack', n) = TotalCount(stack, n)]_vars
    /\ [][(run.pc # "idle" /\ run'.pc # "idle") =>
            \A n \in CountedNames :
                TotalCount(stack', n) = TotalCount(stack, n) + Increments(n)]_vars
    /\ [][(run.pc = "idle" /\ run'.pc # "idle") =>
            \A n \in CounterNames : TotalCount(stack', n) = 0]_vars
    /\ [][(run.pc # "idle" /\ run'.pc = "idle") =>
            /\ Len(stack') = 1
            /\ \A n \in CounterNames : stack'[1][n] = TotalCount(stack, n)]_vars

\* A run has ended in which the download of a conversation raised after two
\* of its messages were stored: the root scope counts the two messages and
\* the failed conversation.
C38_Witness ==
    /\ run.pc = "idle"
    /\ run.previous = "failed"
    /\ Len(stack) = 1
    /\ stack[1].messages_added = 2
    /\ stack[1].failed_conversations = 1
    /\ stack[1].conversations_added >= 1

-----------------------------------------------------------------------------
(* SpecStats: any sequence of push, pop and "+=" on a BackendStats object,  *)
(* the way "with self.stats:" and "self.stats.<name> += n" use it           *)

MaxOps == 6
MaxDepth == 3

\* A "+=" that stores the sum in the outermost scope.
AddToRoot(st, name, n) == [st EXCEPT ![1][name] = st[Len(st)][name] + n]

\* self.stats.<name> += n: __getattr__ reads the counter of the current scope
\* and __setattr__ stores the sum in the current scope.
Add(st, name, n) == [st EXCEPT ![Len(st)][name] = @ + n]

\* The statistics a sequence of operations starts from: a fresh object, or
\* one that is one scope deep and has counted something already.
StatsBefore ==
    {NewStats,
     Add(push(Add(NewStats, "messages_added", 1)), "messages_added", 4)}

Additions ==
    {[op |-> "add", name |-> "messages_added", n |-> 3],
     [op |-> "add", name |-> "messages_added", n |-> 2],
     [op |-> "add", name |-> "contacts_added", n |-> 1]}

InitStats ==
    /\ accounts = {}
    /\ contacts = {}
    /\ email_addresses = {}
    /\ telephone_numbers = {}
    /\ conversations = {}
    /\ messages = {}
    /\ stack \in StatsBefore
    /\ external_id_cache = <<>>
    /\ remote = NoRemote
    /\ run = NoRun
    /\ ret = [op |-> "stats", before |-> stack, ops |-> <<>>]
    /\ disk = session

StatsPush ==
    /\ Len(ret.ops) < MaxOps
    /\ Len(stack) < MaxDepth
    /\ stack' = push(stack)
    /\ ret' = [ret EXCEPT !.ops = Append(@, [op |-> "push"])]
    /\ UNCHANGED <<accounts, contacts, email_addresses, telephone_numbers,
                   conversations, messages, external_id_cache, remote, run, disk>>

StatsAdd ==
    \E a \in Additions :
        /\ Len(ret.ops) < MaxOps
        /\ stack' = Add(stack, a.name, a.n)
        /\ ret' = [ret EXCEPT !.ops = Append(@, a)]
        /\ UNCHANGED <<accounts, contacts, email_addresses, telephone_numbers,
                       conversations, messages, external_id_cache, remote, run, disk>>

\* pop() is only reached by leaving a "with self.stats:" block, so a scope
\* that was pushed is on the stack.
StatsPop ==
    /\ Len(ret.ops) < MaxOps
    /\ Len(stack) > 1
    /\ stack' = pop(stack)
    /\ ret' = [ret EXCEPT !.ops = Append(@, [op |-> "pop"])]
    /\ UNCHANGED <<accounts, contacts, email_addresses, telephone_numbers,
                   conversations, messages, external_id_cache, remote, run, disk>>

NextStats == StatsPush \/ StatsAdd \/ StatsPop

SpecStats == InitStats /\ [][NextStats]_vars

\* push(); add(A, 3); push(); add(A, 2); pop(), with A = messages_added.
Scenario ==
    << [op |-> "push"], [op |-> "add", name |-> "messages_added", n |-> 3],
       [op |-> "push"], [op |-> "add", name |-> "messages_added", n |-> 2],
       [op |-> "pop"] >>

\* C12: pop() removes the top scope and adds each of its counters to the
\* counter of the same name of the scope below, which becomes the top scope;
\* the scopes further down are untouched.  So after push(); add(A, 3); push();
\* add(A, 2); pop() the top scope has A = 5, and after one more pop() the scope
\* the sequence started in (the root scope, or a deeper one) has gained 5.
C12_PopAddsIntoOuterScope ==
    /\ [][ret'.ops = Append(ret.ops, [op |-> "pop"]) =>
            /\ Len(stack') = Len(stack) - 1
            /\ \A n \in CounterNames :
                  stack'[Len(stack')][n] = stack[Len(stack) - 1][n] + stack[Len(stack)][n]
            /\ \A i \in 1..(Len(stack') - 1) : stack'[i] = stack[i]]_vars
    /\ [](ret.ops = Scenario => scope(stack).messages_added = 5)
    /\ [](ret.ops = Append(Scenario, [op |-> "pop"]) =>
              /\ Len(stack) = Len(ret.before)
              /\ scope(stack).messages_added = scope(ret.before).messages_added + 5)

\* The scenario has run to its end on a fresh object: the root scope holds 5.
C12_Witness ==
    /\ ret.op = "stats"
    /\ ret.before = NewStats
    /\ ret.ops = Append(Scenario, [op |-> "pop"])
    /\ Len(stack) = 1
    /\ scope(stack).messages_added = 5

\* C28: reading or incrementing a counter targets the top scope: push() adds
\* a scope in which every counter reads zero, "+= n" raises the named counter
\* of the top scope by n, and neither changes a counter of a scope below the
\* top (nor, for "+=", another counter of the top scope).
C28_TopScopeOnly ==
    /\ [][ret'.ops = Append(ret.ops, [op |-> "push"]) =>
            /\ Len(stack') = Len(stack) + 1
            /\ \A n \in CounterNames : scope(stack')[n] = 0
            /\ \A i \in 1..Len(stack) : stack'[i] = stack[i]]_vars
    /\ [][\A a \in Additions :
            ret'.ops = Append(ret.ops, a) =>
                /\ Len(stack') = Len(stack)
                /\ scope(stack')[a.name] = scope(stack)[a.name] + a.n
                /\ \A n \in CounterNames \ {a.name} : scope(stack')[n] = scope(stack)[n]
                /\ \A i \in 1..(Len(stack) - 1) : stack'[i] = stack[i]]_vars

\* Two scopes below the top hold counts, a scope was pushed and counted in:
\* the top scope holds the 3 that were added, the scopes below what they held.
C28_Witness ==
    /\ ret.op = "stats"
    /\ Len(ret.before) = 2
    /\ ret.ops = << [op |-> "push"], [op |-> "add", name |-> "messages_added", n |-> 3] >>
    /\ Len(stack) = 3
    /\ scope(stack).messages_added = 3
    /\ stack[2].messages_added = 4
    /\ stack[1].messages_added = 1

-----------------------------------------------------------------------------
(* C40: a call counts a contact as added or as changed, not as both         *)

\* C40: a get_or_create_contact call increments at most one of
\* contacts_added and contacts_changed, and a call that creates a contact,
\* with or without email addresses or telephone numbers, increments
\* contacts_added by one and leaves contacts_changed as it was.
C40_AddedOrChanged ==
    [][ret'.op = "get_or_create_contact" =>
          /\ (scope(stack').contacts_added - scope(stack).contacts_added)
               + (scope(stack').contacts_changed - scope(stack).contacts_changed) <= 1
          /\ ret'.created =>
                /\ scope(stack').contacts_added = scope(stack).contacts_added + 1
                /\ scope(stack').contacts_changed = scope(stack).contacts_changed]_vars

-----------------------------------------------------------------------------
(* SpecStatsCalls: any sequence of calls of push(), pop() and "+=" on a     *)
(* BackendStats object, pop() also when only the root scope is left.        *)

IndexError == "IndexError"

\* BackendStats.pop called on any stack.  "self.stack.pop(-1)" raises
\* IndexError on an empty list.  When it removes the only scope, the loop
\* over counters.items() reads self.scope, that is self.stack[-1] of the
\* empty list, and raises IndexError for the first counter the scope holds
\* (has_items); a scope without counters is removed without an exception.
BackendStats_pop(st, has_items) ==
    IF st = <<>>
    THEN [raised |-> IndexError, stack |-> st]
    ELSE IF Len(st) = 1
    THEN [raised |-> IF has_items THEN IndexError ELSE None, stack |-> <<>>]
    ELSE [raised |-> None, stack |-> pop(st)]

\* self.stats.<name> += n on any stack: __getattr__ reads self.scope.
BackendStats_add(st, name, n) ==
    IF st = <<>>
    THEN [raised |-> IndexError, stack |-> st]
    ELSE [raised |-> None, stack |-> Add(st, name, n)]

\* Whether the defaultdict of the current scope holds a counter: it does
\* when one was incremented, and it may when one was only read.
HasItems(st) ==
    IF \E n \in CounterNames : scope(st)[n] # 0 THEN {TRUE} ELSE BOOLEAN

InitStatsCalls ==
    /\ accounts = {}
    /\ contacts = {}
    /\ email_addresses = {}
    /\ telephone_numbers = {}
    /\ conversations = {}
    /\ messages = {}
    /\ stack = NewStats
    /\ external_id_cache = <<>>
    /\ remote = NoRemote
    /\ run = NoRun
    /\ ret = [op |-> "call", ops |-> <<>>, raised |-> None]
    /\ disk = session

CallPush ==
    /\ Len(ret.ops) < MaxOps
    /\ Len(stack) < MaxDepth
    /\ stack' = push(stack)
    /\ ret' = [ret EXCEPT !.ops = Append(@, [op |-> "push"]), !.raised = None]
    /\ UNCHANGED <<accounts, contacts, email_addresses, telephone_numbers,
                   conversations, messages, external_id_cache, remote, run, disk>>

CallAdd ==
    \E a \in Additions :
        \E got \in {BackendStats_add(stack, a.name, a.n)} :
            /\ Len(ret.ops) < MaxOps
            /\ stack' = got.stack
            /\ ret' = [ret EXCEPT !.ops = Append(@, a), !.raised = got.raised]
            /\ UNCHANGED <<accounts, contacts, email_addresses, telephone_numbers,
                           conversations, messages, external_id_cache, remote, run,
                           disk>>

CallPop ==
    \E has_items \in (IF stack = <<>> THEN {FALSE} ELSE HasItems(stack)) :
        \E got \in {BackendStats_pop(stack, has_items)} :
            /\ Len(ret.ops) < MaxOps
            /\ stack' = got.stack
            /\ ret' = [ret EXCEPT !.ops = Append(@, [op |-> "pop"]),
                                  !.raised = got.raised]
            /\ UNCHANGED <<accounts, contacts, email_addresses, telephone_numbers,
                           conversations, messages, external_id_cache, remote, run,
                           disk>>

NextStatsCalls == CallPush \/ CallAdd \/ CallPop

SpecStatsCalls == InitStatsCalls /\ [][NextStatsCalls]_vars

\* C39: after any sequence of push() and pop() calls, also a pop() issued
\* when only the root scope is present, the stack holds at least the root
\* scope and no call, an increment included, has raised an exception.
C39_RootScopeStays ==
    ret.op = "call" => (Len(stack) >= 1 /\ ret.raised = None)

====
